---- MODULE Spec2Model ----
(***************************************************************************)
(* Verification model of compas_grid.                                      *)
(*                                                                         *)
(*   - topology reconstruction: CellNetwork.from_lines_and_surfaces        *)
(*     (src/src/compas_grid/datastructures/cell_network.py)                *)
(*   - column-head rule engine: ColumnHeadDirection, ColumnHeadCrossShape  *)
(*     (src/src/compas_grid/shapes/shape_column_head.py)                   *)
(*                                                                         *)
(* Coordinates are fixed-point integers: one quantization cell of the      *)
(* geometric key (10^-tolerance) is CellUnits integer units wide, so that  *)
(* distinct points inside one cell, and points on either side of a         *)
(* rounding boundary, both exist in the model.                             *)
(***************************************************************************)
EXTENDS Integers, Sequences, FiniteSets, TLC

VARIABLES
    column_and_beams,   \* input: list[Line], a line is <<point, point>>
    floor_surfaces,     \* input: list[Mesh], [vertices: Seq(point), faces: Seq(Seq(index))]
    pc,                 \* position inside from_lines_and_surfaces
    graph,              \* the compas Graph built by Graph.from_lines
    cell_network,       \* the CellNetwork under construction
    sh_pc,              \* position inside ColumnHeadCrossShape.__init__ / _generate_mesh
    sh_caller,          \* "init" (called from __init__) or "direct"
    sh_calls,           \* number of calls started so far
    sh_v, sh_e, sh_f,   \* arguments v, e, f of ColumnHeadCrossShape.__init__
    sh_rules,           \* the tuple handed to _generate_mesh
    sh_used,            \* the rule vector the face emission of _generate_mesh reads
    sh_mesh,            \* the mesh under construction / returned
    sh_raised,          \* the exception that ended the call, or "none"
    generated_meshes,   \* ColumnHeadCrossShape._generated_meshes (class attribute)
    last_mesh,          \* ColumnHeadCrossShape._last_mesh
    dc_pc,              \* position of a caller of get_direction_combination
    dc_a, dc_b,         \* the two directions it combines
    dc_ab, dc_ba,       \* outcome of combining (a, b) and (b, a)
    interactions_added, \* the add_interaction calls that built model.graph
    el_geometry,        \* element -> its stored geometry (element.geometry)
    debug,              \* compas_grid.debug: "True", "False" or "unset"
    global_property,    \* compas_grid.global_property, the diagnostic collection
    cut_pc,             \* position inside compute_geometry_model / compute_interactions
    cut_runs,           \* number of computations started so far
    cut_self,           \* self.graph_node of the element being computed
    cut_xform,          \* xform: "identity" or "inverse"
    cut_neighbors,      \* neighbours of self not visited yet
    cut_edge,           \* the edge of the neighbour being visited
    cut_pending,        \* interactions of that edge not looked at yet
    geometry_to_modify, \* the geometry being computed
    cut_raised,         \* the exception that ended the computation, or "none"
    cut_calls,          \* history: the compute_interaction calls of this run
    ch_elements,        \* the column-head elements created so far
    gm_pc,              \* position inside GridModel.from_lines_and_surfaces
    gm_i,               \* index of the next item of the loop it is in
    gm_elements,        \* the elements of the model, in add_element order
    gm_interactions,    \* the add_interaction calls made on the model
    gm_ops,             \* history: the model operations, in call order
    column_head_to_vertex,      \* dict: vertex -> column-head element
    column_to_edge,             \* dict: edge -> column element
    beam_to_edge,               \* dict: edge -> beam element
    vertex_to_plates_and_faces, \* dict: vertex -> list of (plate, face vertices)
    gm_raised,          \* the exception that ended the build, or "none"
    cd_pc,              \* closest_direction: "idle", "called" or "returned"
    cd_vector,          \* closest_direction: the vector argument
    cd_result,          \* closest_direction: what the call returned or raised
    ix_pc,              \* grid indices: the next call in Axes (0: none)
    ix_nodes,           \* grid indices: graph node -> <<x, y, z>>
    ix_edges,           \* grid indices: the edges of the cell network
    ix_faces,           \* grid indices: the faces of the cell network (vertex lists)
    ix_cell_network,    \* grid indices: the u, v, w attributes written so far
    dy_pc,              \* is_dirty setter: "idle", "running", "returned" or "raised"
    dy_edges,           \* is_dirty setter: the edges of the interaction graph
    dy_dirty,           \* element -> its _is_dirty flag
    dy_stack,           \* is_dirty setter: the frames of the nested setter calls
    dy_call,            \* is_dirty setter: the element and value of the outer call
    dm_instance,        \* ColumnHeadCrossShape._instance and its dimension fields
    dm_meshes,          \* _generated_meshes: rule vector -> dimensions of the mesh
    dm_calls,           \* history: the constructions, in call order
    sl_pc,              \* slice_and_select_largest: "idle", "sliced" or "returned"
    sl_mesh,            \* slice_and_select_largest: the mesh argument
    sl_pair,            \* slice_and_select_largest: what mesh_slice_plane gave
    sl_result           \* slice_and_select_largest: the mesh returned

topo_vars == <<column_and_beams, floor_surfaces, pc, graph, cell_network>>
shape_vars == <<sh_pc, sh_caller, sh_calls, sh_v, sh_e, sh_f, sh_rules, sh_used,
                sh_mesh, sh_raised, generated_meshes, last_mesh>>
dc_vars == <<dc_pc, dc_a, dc_b, dc_ab, dc_ba>>
cut_vars == <<interactions_added, el_geometry, debug, global_property, cut_pc,
              cut_runs, cut_self, cut_xform, cut_neighbors, cut_edge, cut_pending,
              geometry_to_modify, cut_raised, cut_calls>>
ch_vars == <<ch_elements>>
grid_vars == <<gm_pc, gm_i, gm_elements, gm_interactions, gm_ops,
               column_head_to_vertex, column_to_edge, beam_to_edge,
               vertex_to_plates_and_faces, gm_raised>>
dir_vars == <<cd_pc, cd_vector, cd_result>>
ix_vars == <<ix_pc, ix_nodes, ix_edges, ix_faces, ix_cell_network>>
dirty_vars == <<dy_pc, dy_edges, dy_dirty, dy_stack, dy_call>>
dim_vars == <<dm_instance, dm_meshes, dm_calls>>
slice_vars == <<sl_pc, sl_mesh, sl_pair, sl_result>>
more_vars == <<dir_vars, ix_vars, dirty_vars, dim_vars, slice_vars>>
vars == <<column_and_beams, floor_surfaces, pc, graph, cell_network,
          sh_pc, sh_caller, sh_calls, sh_v, sh_e, sh_f, sh_rules, sh_used,
          sh_mesh, sh_raised, generated_meshes, last_mesh,
          dc_pc, dc_a, dc_b, dc_ab, dc_ba,
          interactions_added, el_geometry, debug, global_property, cut_pc,
          cut_runs, cut_self, cut_xform, cut_neighbors, cut_edge, cut_pending,
          geometry_to_modify, cut_raised, cut_calls,
          ch_elements,
          gm_pc, gm_i, gm_elements, gm_interactions, gm_ops,
          column_head_to_vertex, column_to_edge, beam_to_edge,
          vertex_to_plates_and_faces, gm_raised, more_vars>>

(***************************************************************************)
(* Bounds and program constants                                            *)
(***************************************************************************)
MaxLines == 2       \* at most this many input lines
MaxMeshes == 1      \* at most this many input floor meshes
CellUnits == 3      \* integer units per quantization cell
Tolerance == 3      \* default of the tolerance parameter

(***************************************************************************)
(* Sequence helpers                                                        *)
(***************************************************************************)
Abs(x) == IF x < 0 THEN -x ELSE x

Max(a, b) == IF a > b THEN a ELSE b

Front(s) == SubSeq(s, 1, Len(s) - 1)

Last(s) == s[Len(s)]

Range(s) == {s[i] : i \in 1..Len(s)}

IndexOf(s, e) ==
    IF \E i \in 1..Len(s) : s[i] = e
    THEN CHOOSE i \in 1..Len(s) : s[i] = e /\ \A j \in 1..(i - 1) : s[j] # e
    ELSE 0

RECURSIVE Flatten(_)
Flatten(ss) == IF ss = <<>> THEN <<>> ELSE Flatten(Front(ss)) \o Last(ss)

RECURSIVE Dedup(_)
Dedup(s) ==
    IF s = <<>> THEN <<>>
    ELSE LET f == Dedup(Front(s))
         IN IF IndexOf(f, Last(s)) # 0 THEN f ELSE Append(f, Last(s))

\* the "seen" filter of edges(): an unordered pair is yielded once, in the
\* direction in which it is met first
RECURSIVE SeenFilter(_)
SeenFilter(s) ==
    IF s = <<>> THEN <<>>
    ELSE LET f == SeenFilter(Front(s))
             l == Last(s)
         IN IF \E i \in 1..Len(f) : f[i] = l \/ f[i] = <<l[2], l[1]>>
            THEN f ELSE Append(f, l)

SeqsUpTo(S, n) == UNION {[1..k -> S] : k \in 0..n}

(***************************************************************************)
(* TOL.geometric_key(xyz, precision): each coordinate is rounded to        *)
(* `precision` decimals, i.e. to the nearest multiple of the cell width;   *)
(* the key names the cell.                                                 *)
(***************************************************************************)
Quantize(x) == (2 * x + CellUnits) \div (2 * CellUnits)

geometric_key(xyz) == <<Quantize(xyz[1]), Quantize(xyz[2]), Quantize(xyz[3])>>

(***************************************************************************)
(* Mesh.to_lines(): one line per edge of the mesh; Mesh.edges() walks the  *)
(* halfedge dict in vertex order and skips pairs already seen.             *)
(***************************************************************************)
FacePairs(face) == [i \in 1..Len(face) |-> <<face[i], face[(i % Len(face)) + 1]>>]

MeshHalfedgePairs(mesh) ==
    Flatten([i \in 1..Len(mesh.faces) |-> FacePairs(mesh.faces[i])])

HalfedgeNbrs(pairs, u) ==
    Dedup(Flatten([i \in 1..Len(pairs) |->
        IF pairs[i][1] = u THEN <<pairs[i][2]>>
        ELSE IF pairs[i][2] = u THEN <<pairs[i][1]>>
        ELSE <<>>]))

MeshEdges(mesh) ==
    LET pairs == MeshHalfedgePairs(mesh)
    IN SeenFilter(Flatten([u \in 1..Len(mesh.vertices) |->
           LET nb == HalfedgeNbrs(pairs, u)
           IN [j \in 1..Len(nb) |-> <<u, nb[j]>>]]))

to_lines(mesh) ==
    LET es == MeshEdges(mesh)
    IN [i \in 1..Len(es) |-> <<mesh.vertices[es[i][1]], mesh.vertices[es[i][2]]>>]

\* cell_network.py:37-44
lines_from_user_input(lines, meshes) ==
    lines \o Flatten([i \in 1..Len(meshes) |-> to_lines(meshes[i])])

(***************************************************************************)
(* Graph.from_lines(lines, precision): nodes are keyed by geometric key in *)
(* first-seen order, a node keeps the coordinates of the point seen last;  *)
(* one directed edge per distinct (key, key) pair.                         *)
(***************************************************************************)
\* mutant: a point never merges into an existing node
Touch_NoMerge(node, p) ==
    [keys |-> Append(node.keys, geometric_key(p)), xyz |-> Append(node.xyz, p)]

Touch(node, p) ==
    LET k == geometric_key(p)
        i == IndexOf(node.keys, k)
    IN IF i = 0
       THEN [keys |-> Append(node.keys, k), xyz |-> Append(node.xyz, p)]
       ELSE [node EXCEPT !.xyz[i] = p]

RECURSIVE NodeDict(_)
NodeDict(lines) ==
    IF lines = <<>> THEN [keys |-> <<>>, xyz |-> <<>>]
    ELSE Touch(Touch(NodeDict(Front(lines)), Last(lines)[1]), Last(lines)[2])

\* Graph.edges(): the edge dict is walked node by node
GraphEdges(n, inserted) ==
    Flatten([u \in 1..n |-> SelectSeq(Dedup(inserted), LAMBDA e : e[1] = u)])

\* Graph.neighbors(u): adjacency is filled in both directions by add_edge
GraphNeighbors(inserted, u) == HalfedgeNbrs(inserted, u)

from_lines(lines) ==
    LET node == NodeDict(lines)
        n == Len(node.keys)
        inserted == [i \in 1..Len(lines) |->
                        <<IndexOf(node.keys, geometric_key(lines[i][1])),
                          IndexOf(node.keys, geometric_key(lines[i][2]))>>]
    IN [xyz |-> node.xyz,
        edges |-> GraphEdges(n, inserted),
        adjacency |-> [u \in 1..n |-> GraphNeighbors(inserted, u)]]

(***************************************************************************)
(* CellNetwork.from_lines_and_surfaces, phase by phase                     *)
(***************************************************************************)
EmptyGraph == [xyz |-> <<>>, edges |-> <<>>, adjacency |-> <<>>]

EmptyCellNetwork ==
    [vertex |-> <<>>, vertex_keys |-> <<>>, edge |-> <<>>,
     neighbors |-> <<>>, edge_data |-> <<>>, face |-> <<>>, face_data |-> <<>>]

\* abs(z0 - z1) < 1 / max(1, tolerance), in integer units
IsHorizontal(p, q) ==
    Abs(p[3] - q[3]) * Max(1, Tolerance) < (10 ^ Tolerance) * CellUnits

\* cell_network.py:51-62: vertices, key map and edges copied from the graph
CopyGraph(g) ==
    [EmptyCellNetwork EXCEPT
        !.vertex = g.xyz,
        !.vertex_keys = [i \in 1..Len(g.xyz) |-> geometric_key(g.xyz[i])],
        !.edge = SeenFilter(g.edges),
        !.edge_data = [i \in 1..Len(SeenFilter(g.edges)) |-> {}]]

\* mutant: the elevation test is left out
NeighborBeams_All(g, vertex) == g.adjacency[vertex]

\* cell_network.py:68-76
NeighborBeams(g, vertex) ==
    SelectSeq(g.adjacency[vertex],
              LAMBDA nb : IsHorizontal(g.xyz[vertex], g.xyz[nb]))

\* mutant: the two attribute names are swapped
EdgeFlag_Swapped(g, e) ==
    IF IsHorizontal(g.xyz[e[1]], g.xyz[e[2]]) THEN "is_column" ELSE "is_beam"

\* cell_network.py:86: the attribute name chosen for edge (u, v)
EdgeFlag(g, e) ==
    IF IsHorizontal(g.xyz[e[1]], g.xyz[e[2]]) THEN "is_beam" ELSE "is_column"

\* index of the undirected edge that stores the data of (u, v)
EdgeIndex(cn, e) ==
    IF IndexOf(cn.edge, e) # 0 THEN IndexOf(cn.edge, e)
    ELSE IndexOf(cn.edge, <<e[2], e[1]>>)

RECURSIVE ClassifyEdges(_, _, _)
ClassifyEdges(g, cn, k) ==
    IF k = 0 THEN cn
    ELSE LET prev == ClassifyEdges(g, cn, k - 1)
             e == g.edges[k]
             i == EdgeIndex(prev, e)
         IN [prev EXCEPT !.edge_data[i] = @ \cup {EdgeFlag(g, e)}]

\* cell_network.py:90-91: the vertices of the mesh that resolve by key
ResolvedVertices(cn, mesh) ==
    LET gkeys == [i \in 1..Len(mesh.vertices) |-> geometric_key(mesh.vertices[i])]
    IN Flatten([i \in 1..Len(gkeys) |->
          IF IndexOf(cn.vertex_keys, gkeys[i]) # 0
          THEN <<IndexOf(cn.vertex_keys, gkeys[i])>> ELSE <<>>])

\* mutant: the attribute dict of the face is dropped
add_face_NoAttr(cn, vertices, attr) ==
    IF Len(vertices) < 3 THEN cn
    ELSE [cn EXCEPT !.face = Append(@, vertices), !.face_data = Append(@, {})]

\* CellNetwork.add_face(vertices, attr_dict): fewer than 3 vertices add nothing
add_face(cn, vertices, attr) ==
    IF Len(vertices) < 3 THEN cn
    ELSE LET vs == IF Last(vertices) = vertices[1] THEN Front(vertices) ELSE vertices
         IN [cn EXCEPT !.face = Append(@, vs), !.face_data = Append(@, attr)]

\* cell_network.py:89-92
RECURSIVE AddFaces(_, _, _)
AddFaces(cn, meshes, k) ==
    IF k = 0 THEN cn
    ELSE LET prev == AddFaces(cn, meshes, k - 1)
         IN add_face(prev, ResolvedVertices(prev, meshes[k]), {"is_floor"})

\* the whole function, as one operator
BuildCellNetwork(lines, meshes) ==
    LET g == from_lines(lines_from_user_input(lines, meshes))
        c1 == CopyGraph(g)
        c2 == [c1 EXCEPT !.neighbors = [v \in 1..Len(c1.vertex) |-> NeighborBeams(g, v)]]
        c3 == ClassifyEdges(g, c2, Len(g.edges))
    IN AddFaces(c3, meshes, Len(meshes))

(***************************************************************************)
(* Inputs                                                                  *)
(***************************************************************************)
PA == <<0, 0, 0>>
PA1 == <<1, 0, 0>>          \* in the cell of PA
PA2 == <<2, 0, 0>>          \* next cell, one unit from PA1
PB == <<3000, 0, 0>>
PC == <<3000, 3000, 0>>
PD == <<0, 3000, 0>>
PU == <<0, 0, 9000>>
PZ1 == <<0, 0, 999>>        \* PZ1 and PZ2 share a cell; the beam/column
PZ2 == <<0, 0, 1000>>       \* threshold lies between them
PFar == <<9000, 9000, 0>>

LineSet ==
    {<<PA, PB>>, <<PB, PA>>, <<PA1, PB>>, <<PA2, PB>>, <<PA, PA1>>,
     <<PA, PU>>, <<PU, PA>>, <<PA, PZ1>>, <<PA, PZ2>>,
     <<PB, PC>>, <<PD, PA>>, <<PD, PC>>}

MeshSet ==
    {[vertices |-> <<PA, PB, PC, PD>>, faces |-> << <<1, 2, 3, 4>> >>],
     [vertices |-> <<PA, PC, PB, PD>>, faces |-> << <<1, 3, 2, 4>> >>],
     [vertices |-> <<PA, PB, PC, PD, PU>>, faces |-> << <<1, 2, 3, 4>> >>],
     [vertices |-> <<PA, PB, PC, PFar>>, faces |-> << <<1, 2, 3>> >>]}

(***************************************************************************)
(* Column-head state that the topology build leaves alone                  *)
(***************************************************************************)
\* moved: the number of transformations applied to the mesh in place
NoMesh == [vertex |-> {}, face |-> <<>>, moved |-> 0]

ShapeIdle ==
    /\ sh_pc = "idle"
    /\ sh_caller = "none"
    /\ sh_calls = 0
    /\ sh_v = <<>>
    /\ sh_e = <<>>
    /\ sh_f = <<>>
    /\ sh_rules = <<>>
    /\ sh_used = <<>>
    /\ sh_mesh = NoMesh
    /\ sh_raised = "none"
    /\ generated_meshes = <<>>
    /\ last_mesh = NoMesh

NoOutcome == [raised |-> "pending", value |-> -1]

CombineIdle ==
    /\ dc_pc = "idle"
    /\ dc_a = 0
    /\ dc_b = 0
    /\ dc_ab = NoOutcome
    /\ dc_ba = NoOutcome

HeadsIdle == ch_elements = <<>>

GridIdle ==
    /\ gm_pc = "idle"
    /\ gm_i = 0
    /\ gm_elements = <<>>
    /\ gm_interactions = <<>>
    /\ gm_ops = <<>>
    /\ column_head_to_vertex = <<>>
    /\ column_to_edge = <<>>
    /\ beam_to_edge = <<>>
    /\ vertex_to_plates_and_faces = <<>>
    /\ gm_raised = "none"

NoGeometry == [of |-> -1, frame |-> 0, unified |-> FALSE, volume |-> 0, cuts |-> <<>>]

CutIdle ==
    /\ interactions_added = <<>>
    /\ el_geometry = <<>>
    /\ debug = "unset"
    /\ global_property = <<>>
    /\ cut_pc = "idle"
    /\ cut_runs = 0
    /\ cut_self = -1
    /\ cut_xform = "identity"
    /\ cut_neighbors = <<>>
    /\ cut_edge = <<>>
    /\ cut_pending = <<>>
    /\ geometry_to_modify = NoGeometry
    /\ cut_raised = "none"
    /\ cut_calls = <<>>

NoFragment == [id |-> 0, volume |-> 0]

NoIndices == [vertex |-> <<>>, edge |-> <<>>, face |-> <<>>, attributes |-> <<>>]

NoInstance == [exists |-> FALSE, initialized |-> FALSE, dims |-> <<>>]

DirIdle ==
    /\ cd_pc = "idle"
    /\ cd_vector = <<0, 0, 0>>
    /\ cd_result = NoOutcome

IndexIdle ==
    /\ ix_pc = 0
    /\ ix_nodes = <<>>
    /\ ix_edges = <<>>
    /\ ix_faces = <<>>
    /\ ix_cell_network = NoIndices

DirtyIdle ==
    /\ dy_pc = "idle"
    /\ dy_edges = {}
    /\ dy_dirty = <<>>
    /\ dy_stack = <<>>
    /\ dy_call = <<>>

DimsIdle ==
    /\ dm_instance = NoInstance
    /\ dm_meshes = <<>>
    /\ dm_calls = <<>>

SliceIdle ==
    /\ sl_pc = "idle"
    /\ sl_mesh = NoFragment
    /\ sl_pair = [raised |-> "pending", value |-> <<>>]
    /\ sl_result = NoFragment

MoreIdle == DirIdle /\ IndexIdle /\ DirtyIdle /\ DimsIdle /\ SliceIdle

(***************************************************************************)
(* Specification of the topology build                                     *)
(***************************************************************************)
Init ==
    /\ column_and_beams \in SeqsUpTo(LineSet, MaxLines)
    /\ floor_surfaces \in SeqsUpTo(MeshSet, MaxMeshes)
    /\ pc = "input"
    /\ graph = EmptyGraph
    /\ cell_network = EmptyCellNetwork
    /\ ShapeIdle
    /\ CombineIdle
    /\ CutIdle
    /\ HeadsIdle
    /\ GridIdle
    /\ MoreIdle

\* cell_network.py:37-46
BuildGraph ==
    /\ pc = "input"
    /\ graph' = from_lines(lines_from_user_input(column_and_beams, floor_surfaces))
    /\ pc' = "graph"
    /\ UNCHANGED <<column_and_beams, floor_surfaces, cell_network>>
    /\ UNCHANGED <<shape_vars, dc_vars, cut_vars, ch_vars, grid_vars, more_vars>>

\* cell_network.py:51-62
AddVerticesAndEdges ==
    /\ pc = "graph"
    /\ cell_network' = CopyGraph(graph)
    /\ pc' = "copied"
    /\ UNCHANGED <<column_and_beams, floor_surfaces, graph>>
    /\ UNCHANGED <<shape_vars, dc_vars, cut_vars, ch_vars, grid_vars, more_vars>>

\* cell_network.py:68-76
AddVertexNeighbors ==
    /\ pc = "copied"
    /\ cell_network' = [cell_network EXCEPT !.neighbors =
            [v \in 1..Len(cell_network.vertex) |-> NeighborBeams(graph, v)]]
    /\ pc' = "neighbors"
    /\ UNCHANGED <<column_and_beams, floor_surfaces, graph>>
    /\ UNCHANGED <<shape_vars, dc_vars, cut_vars, ch_vars, grid_vars, more_vars>>

\* cell_network.py:83-86
AddEdgeAttributes ==
    /\ pc = "neighbors"
    /\ cell_network' = ClassifyEdges(graph, cell_network, Len(graph.edges))
    /\ pc' = "classified"
    /\ UNCHANGED <<column_and_beams, floor_surfaces, graph>>
    /\ UNCHANGED <<shape_vars, dc_vars, cut_vars, ch_vars, grid_vars, more_vars>>

\* cell_network.py:89-94
AddFloorFaces ==
    /\ pc = "classified"
    /\ cell_network' = AddFaces(cell_network, floor_surfaces, Len(floor_surfaces))
    /\ pc' = "done"
    /\ UNCHANGED <<column_and_beams, floor_surfaces, graph>>
    /\ UNCHANGED <<shape_vars, dc_vars, cut_vars, ch_vars, grid_vars, more_vars>>

Next ==
    \/ BuildGraph
    \/ AddVerticesAndEdges
    \/ AddVertexNeighbors
    \/ AddEdgeAttributes
    \/ AddFloorFaces

Spec == Init /\ [][Next]_vars

(***************************************************************************)
(* Properties of the topology build                                        *)
(***************************************************************************)
Built == pc = "done"

UserLines == lines_from_user_input(column_and_beams, floor_surfaces)

InputPoints ==
    LET ul == UserLines
    IN {ul[i][1] : i \in 1..Len(ul)} \cup {ul[i][2] : i \in 1..Len(ul)}

VerticesWithKey(k) ==
    {i \in 1..Len(cell_network.vertex_keys) : cell_network.vertex_keys[i] = k}

\* start = lower z, then lower x, then lower y
CanonicalDirection(p, q) ==
    \/ p[3] < q[3]
    \/ p[3] = q[3] /\ p[1] < q[1]
    \/ p[3] = q[3] /\ p[1] = q[1] /\ p[2] <= q[2]

\* C3: every edge (u, v) of the built topology is stored in canonical
\* direction: z(u) <= z(v), on equal z x(u) <= x(v), on equal x y(u) <= y(v).
C3_EdgesCanonical ==
    Built => \A i \in 1..Len(cell_network.edge) :
                CanonicalDirection(cell_network.vertex[cell_network.edge[i][1]],
                                   cell_network.vertex[cell_network.edge[i][2]])

WithinHalfCell(p, q) == \A c \in 1..3 : 2 * Abs(p[c] - q[c]) <= CellUnits

\* the vertex ids an input point resolves to: the vertices that carry its key
ResolvesTo(p) == VerticesWithKey(geometric_key(p))

\* C4 as stated: any two input points within half a quantization cell of each
\* other in every coordinate resolve to one and the same vertex id.
C4_HalfCellMerged ==
    Built => LET pts == InputPoints IN \A p, q \in pts :
                WithinHalfCell(p, q) =>
                    \E id \in 1..Len(cell_network.vertex) :
                        ResolvesTo(p) = {id} /\ ResolvesTo(q) = {id}

\* C4 amended: any two input points that round to the same quantization cell
\* in every coordinate resolve to one and the same vertex id, and the topology
\* holds exactly one vertex per cell that an input point falls in.
C4_SameCellMerged ==
    Built => LET pts == InputPoints
             IN /\ \A p, q \in pts :
                       geometric_key(p) = geometric_key(q) =>
                           \E id \in 1..Len(cell_network.vertex) :
                               ResolvesTo(p) = {id} /\ ResolvesTo(q) = {id}
                /\ Len(cell_network.vertex) =
                       Cardinality({geometric_key(p) : p \in pts})

C4_Witness ==
    /\ Built
    /\ \E p, q \in InputPoints :
          /\ p # q
          /\ geometric_key(p) = geometric_key(q)
          /\ ResolvesTo(p) = ResolvesTo(q)
    /\ \E p, q \in InputPoints :
          /\ WithinHalfCell(p, q)
          /\ geometric_key(p) # geometric_key(q)

Reorderings(s) ==
    {[i \in 1..Len(s) |-> s[f[i]]] :
        f \in {g \in [1..Len(s) -> 1..Len(s)] :
                  \A i, j \in 1..Len(s) : g[i] = g[j] => i = j}}

\* a topology up to renumbering: everything named by geometric keys
TopologyByKeys(cn) ==
    LET key(v) == cn.vertex_keys[v]
    IN [vertices |-> Range(cn.vertex_keys),
        edges |-> {<<{key(cn.edge[i][1]), key(cn.edge[i][2])}, cn.edge_data[i]>> :
                      i \in 1..Len(cn.edge)},
        neighbors |-> {<<key(v), {key(cn.neighbors[v][j]) :
                                     j \in 1..Len(cn.neighbors[v])}>> :
                          v \in 1..Len(cn.vertex)},
        faces |-> {<<{key(cn.face[i][j]) : j \in 1..Len(cn.face[i])}, cn.face_data[i]>> :
                      i \in 1..Len(cn.face)}]

\* C5: building from any permutation of the same lines and meshes yields an
\* isomorphic topology: same vertex keys, same undirected edges with the same
\* flags, same neighbour sets, same faces.
C5_OrderIndependent ==
    Built => \A ls \in Reorderings(column_and_beams) :
             \A ms \in Reorderings(floor_surfaces) :
                TopologyByKeys(BuildCellNetwork(ls, ms)) = TopologyByKeys(cell_network)

AllResolve(mesh) ==
    \A i \in 1..Len(mesh.vertices) :
        VerticesWithKey(geometric_key(mesh.vertices[i])) # {}

\* C6: a floor mesh becomes a face only if every one of its vertices resolves
\* to an existing vertex; a mesh with an unresolved vertex adds no face.
C6_FaceOnlyIfAllResolve ==
    Built => \A i \in 1..Len(cell_network.face) :
                \E k \in 1..Len(floor_surfaces) :
                    /\ AllResolve(floor_surfaces[k])
                    /\ Range(cell_network.face[i]) =
                          UNION {VerticesWithKey(geometric_key(floor_surfaces[k].vertices[j])) :
                                    j \in 1..Len(floor_surfaces[k].vertices)}

Classified == pc \in {"classified", "done"}

ElevationBeyondTolerance(u, v) ==
    Abs(cell_network.vertex[u][3] - cell_network.vertex[v][3]) * Max(1, Tolerance)
        >= (10 ^ Tolerance) * CellUnits

EdgesFlagged(flag) ==
    {i \in 1..Len(cell_network.edge) : flag \in cell_network.edge_data[i]}

\* the distinct input lines, as unordered pairs of vertices
DistinctLines ==
    LET ul == UserLines
    IN {{CHOOSE id \in ResolvesTo(ul[i][1]) : TRUE,
         CHOOSE id \in ResolvesTo(ul[i][2]) : TRUE} : i \in 1..Len(ul)}

Vertical(l) == \E u, v \in l : ElevationBeyondTolerance(u, v)

JoinedBy(flag, v) ==
    {n \in 1..Len(cell_network.vertex) :
        \E i \in EdgesFlagged(flag) :
            cell_network.edge[i] \in {<<v, n>>, <<n, v>>}}

\* C8: the neighbour list of v holds exactly the vertices joined to v by an
\* is_beam edge, never the far end of an is_column edge, and is symmetric.
C8_NeighborsAreBeams ==
    Classified =>
        \A v \in 1..Len(cell_network.vertex) :
            /\ Range(cell_network.neighbors[v]) = JoinedBy("is_beam", v)
            /\ \A n \in Range(cell_network.neighbors[v]) :
                  v \in Range(cell_network.neighbors[n])

C8_Witness ==
    /\ Built
    /\ \E v \in 1..Len(cell_network.vertex) :
          /\ cell_network.neighbors[v] # <<>>
          /\ JoinedBy("is_column", v) # {}
          /\ JoinedBy("is_column", v) \cap Range(cell_network.neighbors[v]) = {}

(***************************************************************************)
(* Column-head rule engine: ColumnHeadDirection                            *)
(***************************************************************************)
NORTH == 0
NORTH_WEST == 1
WEST == 2
SOUTH_WEST == 3
SOUTH == 4
SOUTH_EAST == 5
EAST == 6
NORTH_EAST == 7

Directions == 0..7

\* mutant: one of the two orders of a pair names the wrong diagonal
direction_combinations_Asymmetric ==
    (<<NORTH, WEST>> :> NORTH_WEST) @@
    (<<WEST, NORTH>> :> SOUTH_WEST) @@
    (<<WEST, SOUTH>> :> SOUTH_WEST) @@
    (<<SOUTH, WEST>> :> SOUTH_WEST) @@
    (<<SOUTH, EAST>> :> SOUTH_EAST) @@
    (<<EAST, SOUTH>> :> SOUTH_EAST) @@
    (<<NORTH, EAST>> :> NORTH_EAST) @@
    (<<EAST, NORTH>> :> NORTH_EAST)

direction_combinations ==
    (<<NORTH, WEST>> :> NORTH_WEST) @@
    (<<WEST, NORTH>> :> NORTH_WEST) @@
    (<<WEST, SOUTH>> :> SOUTH_WEST) @@
    (<<SOUTH, WEST>> :> SOUTH_WEST) @@
    (<<SOUTH, EAST>> :> SOUTH_EAST) @@
    (<<EAST, SOUTH>> :> SOUTH_EAST) @@
    (<<NORTH, EAST>> :> NORTH_EAST) @@
    (<<EAST, NORTH>> :> NORTH_EAST)

\* mutant: a pair that is not in the table yields a default instead of raising
get_direction_combination_Default(direction1, direction2) ==
    IF <<direction1, direction2>> \in DOMAIN direction_combinations
    THEN [raised |-> "none", value |-> direction_combinations[<<direction1, direction2>>]]
    ELSE [raised |-> "none", value |-> NORTH_WEST]

\* the dict lookup raises KeyError for a pair that is not in the table
get_direction_combination(direction1, direction2) ==
    IF <<direction1, direction2>> \in DOMAIN direction_combinations
    THEN [raised |-> "none", value |-> direction_combinations[<<direction1, direction2>>]]
    ELSE [raised |-> "KeyError", value |-> -1]

(***************************************************************************)
(* ColumnHeadCrossShape.closest_direction                                  *)
(***************************************************************************)
\* the default `directions` dict, in insertion order
CardinalVectors ==
    << <<NORTH, <<0, 1, 0>> >>, <<EAST, <<1, 0, 0>> >>,
       <<SOUTH, <<0, -1, 0>> >>, <<WEST, <<-1, 0, 0>> >> >>

Dot(a, b) == a[1] * b[1] + a[2] * b[2] + a[3] * b[3]

\* mutant: the smallest dot product wins instead of the largest
closest_direction_Opposite(vector) ==
    IF vector = <<0, 0, 0>> THEN [raised |-> "ZeroDivisionError", value |-> -1]
    ELSE LET dot(i) == Dot(vector, CardinalVectors[i][2])
             best == CHOOSE i \in 1..4 :
                        \A j \in 1..4 : dot(j) > dot(i) \/ (dot(j) = dot(i) /\ i <= j)
         IN [raised |-> "none", value |-> CardinalVectors[best][1]]

\* unitize() divides by the length: a zero vector raises; a positive scaling
\* does not change which dot product is largest; max() keeps the first maximum
closest_direction(vector) ==
    IF vector = <<0, 0, 0>> THEN [raised |-> "ZeroDivisionError", value |-> -1]
    ELSE LET dot(i) == Dot(vector, CardinalVectors[i][2])
             best == CHOOSE i \in 1..4 :
                        \A j \in 1..4 : dot(j) < dot(i) \/ (dot(j) = dot(i) /\ i <= j)
         IN [raised |-> "none", value |-> CardinalVectors[best][1]]

(***************************************************************************)
(* ColumnHeadCrossShape._generate_rules                                    *)
(***************************************************************************)
NoRules == [i \in Directions |-> FALSE]

Put(dict, key, value) ==
    [k \in DOMAIN dict \cup {key} |-> IF k = key THEN value ELSE dict[k]]

\* shape_column_head.py:213-227
RECURSIVE EdgePass(_, _, _)
EdgePass(v, e, k) ==
    IF k = 0 THEN [raised |-> "none", rules |-> NoRules, edge_directions |-> <<>>]
    ELSE LET prev == EdgePass(v, e, k - 1)
             edge == e[k]
         IN IF prev.raised # "none" THEN prev
            ELSE IF edge[1] \notin DOMAIN v \/ edge[2] \notin DOMAIN v
            THEN [prev EXCEPT !.raised = "ValueError: vertex not found"]
            ELSE LET p0 == v[edge[1]]
                     p1 == v[edge[2]]
                     vector == <<p1[1] - p0[1], p1[2] - p0[2], p1[3] - p0[3]>>
                     closest == closest_direction(vector)
                     direction == closest.value
                 IN IF closest.raised # "none"
                    THEN [prev EXCEPT !.raised = closest.raised]
                    ELSE [raised |-> "none",
                          rules |-> [prev.rules EXCEPT ![direction] = TRUE],
                          edge_directions |->
                              Put(Put(prev.edge_directions, <<edge[1], edge[2]>>, direction),
                                  <<edge[2], edge[1]>>, direction)]

\* shape_column_head.py:230-238
face_edge_directions(edge_directions, face) ==
    Flatten([i \in 1..Len(face) |->
        LET v0 == face[i]
            v1 == face[(i % Len(face)) + 1]
        IN IF <<v0, v1>> \notin DOMAIN edge_directions THEN <<>>
           ELSE <<edge_directions[<<v0, v1>>]>>])

\* shape_column_head.py:229-245
RECURSIVE FacePass(_, _, _)
FacePass(st, f, k) ==
    IF k = 0 THEN st
    ELSE LET prev == FacePass(st, f, k - 1)
             fed == face_edge_directions(prev.edge_directions, f[k])
         IN IF prev.raised # "none" THEN prev
            ELSE IF Len(fed) # 2
            THEN [prev EXCEPT !.raised = "ValueError: face does not share two edges"]
            ELSE LET face_direction == get_direction_combination(fed[1], fed[2])
                 IN IF face_direction.raised # "none"
                    THEN [prev EXCEPT !.raised = face_direction.raised]
                    ELSE [prev EXCEPT !.rules[face_direction.value] = TRUE]

\* the result: the tuple of rules, or the exception raised
generate_rules(v, e, f) ==
    LET st == FacePass(EdgePass(v, e, Len(e)), f, Len(f))
    IN [raised |-> st.raised, rules |-> st.rules]

(***************************************************************************)
(* ColumnHeadCrossShape._generate_mesh                                     *)
(***************************************************************************)
\* shape_column_head.py:296-299, on the tuple that line 247 returns and that
\* the dict lookup of line 266 requires: a tuple does not support item
\* assignment, so the first bit the loop has to change raises TypeError
FixUp(rules) ==
    IF \E i \in 0..3 :
          rules[i * 2 + 1] /\ (~rules[i * 2] \/ ~rules[(i * 2 + 2) % 8])
    THEN [raised |-> "TypeError", rules |-> rules]
    ELSE [raised |-> "none", rules |-> rules]

\* shape_column_head.py:301-306
BaseMesh ==
    [vertex |-> 0..15, face |-> << <<8, 9, 10, 11>>, <<12, 13, 14, 15>> >>, moved |-> 0]

\* shape_column_head.py:308-338
DirectionFaces ==
    [i \in Directions |->
        CASE i = 0 -> << <<0, 1, 9, 8>>, <<0, 1, 13, 12>> >>
          [] i = 1 -> << <<1, 2, 9>>, <<1, 2, 13>> >>
          [] i = 2 -> << <<2, 3, 10, 9>>, <<2, 3, 14, 13>> >>
          [] i = 3 -> << <<3, 4, 10>>, <<3, 4, 14>> >>
          [] i = 4 -> << <<4, 5, 11, 10>>, <<4, 5, 15, 14>> >>
          [] i = 5 -> << <<5, 6, 11>>, <<5, 6, 15>> >>
          [] i = 6 -> << <<6, 7, 8, 11>>, <<6, 7, 12, 15>> >>
          [] i = 7 -> << <<7, 0, 8>>, <<7, 0, 12>> >>]

RuleFaces(rules) ==
    Flatten([k \in 1..8 |-> IF rules[k - 1] THEN DirectionFaces[k - 1] ELSE <<>>])

\* int(ceil(k * 0.5)) % 4 + 8
InnerVertex(k) == (((k + 1) \div 2) % 4) + 8

\* shape_column_head.py:343-359
OuterRingTriangles(rules) ==
    Flatten([k \in 1..8 |->
        LET i == k - 1
        IN IF rules[i] THEN <<>>
           ELSE (IF rules[(i + 7) % 8]
                 THEN << <<i % 8, InnerVertex(i % 8), InnerVertex(i % 8) + 4>> >>
                 ELSE <<>>) \o
                (IF rules[(i + 1) % 8]
                 THEN << <<(i + 1) % 8, InnerVertex((i + 1) % 8),
                           InnerVertex((i + 1) % 8) + 4>> >>
                 ELSE <<>>)])

\* shape_column_head.py:362-368
InnerQuads(rules) ==
    Flatten([k \in 1..4 |->
        LET i == k - 1
            v0 == i + 8
            v1 == ((i + 1) % 4) + 8
        IN IF ~rules[i * 2] THEN << <<v0, v1, v1 + 4, v0 + 4>> >> ELSE <<>>])

\* Mesh.remove_unused_vertices()
remove_unused_vertices(mesh) ==
    [mesh EXCEPT !.vertex = {x \in mesh.vertex :
                                \E i \in 1..Len(mesh.face) : x \in Range(mesh.face[i])}]

(***************************************************************************)
(* Inputs of the rule engine                                               *)
(***************************************************************************)
MaxEdges == 2       \* at most this many entries of e
MaxFaces == 1       \* at most this many entries of f
MaxCalls == 2       \* at most this many calls in one run

\* v: the junction vertex 0 and its surroundings
JunctionPoints ==
    (0 :> <<0, 0, 0>>) @@ (1 :> <<0, 1, 0>>) @@ (2 :> <<1, 0, 0>>) @@
    (3 :> <<1, -2, 0>>) @@ (4 :> <<-1, 0, 0>>) @@ (5 :> <<1, 1, 0>>) @@
    (6 :> <<1, 2, 0>>) @@ (7 :> <<-1, 1, 0>>)

\* candidate entries of e; vertex 9 is not in v
EdgeSet == {<<0, 1>>, <<0, 2>>, <<0, 3>>, <<0, 9>>}

\* candidate entries of f
FaceSet == {<<1, 0, 2, 5>>, <<1, 0, 3>>, <<5, 6, 7>>}

AllRules == [Directions -> BOOLEAN]

TopoIdle ==
    /\ column_and_beams = <<>>
    /\ floor_surfaces = <<>>
    /\ pc = "idle"
    /\ graph = EmptyGraph
    /\ cell_network = EmptyCellNetwork

(***************************************************************************)
(* Specification of the column-head shape singleton                        *)
(***************************************************************************)
InitShape ==
    /\ TopoIdle
    /\ ShapeIdle
    /\ CombineIdle
    /\ CutIdle
    /\ HeadsIdle
    /\ GridIdle
    /\ MoreIdle

\* shape_column_head.py:130-145: __init__ up to the return of _generate_rules
Construct(v, e, f) ==
    /\ sh_pc = "idle"
    /\ sh_calls < MaxCalls
    /\ LET r == generate_rules(v, e, f)
       IN /\ sh_raised' = r.raised
          /\ sh_rules' = IF r.raised = "none" THEN r.rules ELSE <<>>
          /\ sh_pc' = IF r.raised = "none" THEN "mesh" ELSE "raised"
    /\ sh_caller' = "init"
    /\ sh_calls' = sh_calls + 1
    /\ sh_v' = v
    /\ sh_e' = e
    /\ sh_f' = f
    /\ UNCHANGED <<sh_used, sh_mesh, generated_meshes, last_mesh>>
    /\ UNCHANGED <<topo_vars, dc_vars, cut_vars, ch_vars, grid_vars, more_vars>>

\* a call of _generate_mesh(rules) on an arbitrary tuple of 8 booleans
CallGenerateMesh(rules) ==
    /\ sh_pc = "idle"
    /\ sh_calls < MaxCalls
    /\ sh_caller' = "direct"
    /\ sh_calls' = sh_calls + 1
    /\ sh_rules' = rules
    /\ sh_pc' = "mesh"
    /\ UNCHANGED <<sh_v, sh_e, sh_f, sh_used, sh_mesh, sh_raised,
                   generated_meshes, last_mesh>>
    /\ UNCHANGED <<topo_vars, dc_vars, cut_vars, ch_vars, grid_vars, more_vars>>

\* mutant: the cache is not consulted, every call generates
LookupAndFixUp_NoLookup ==
    /\ sh_pc = "mesh"
    /\ LET r == FixUp(sh_rules)
       IN IF r.raised # "none"
          THEN /\ sh_raised' = r.raised
               /\ sh_pc' = "raised"
               /\ UNCHANGED <<sh_used, sh_mesh>>
          ELSE /\ sh_used' = r.rules
               /\ sh_mesh' = BaseMesh
               /\ sh_pc' = "emit"
               /\ UNCHANGED sh_raised
    /\ UNCHANGED <<sh_caller, sh_calls, sh_v, sh_e, sh_f, sh_rules,
                   generated_meshes, last_mesh>>
    /\ UNCHANGED <<topo_vars, dc_vars, cut_vars, ch_vars, grid_vars, more_vars>>

\* shape_column_head.py:266-306: cache lookup, fix-up, the two base faces
LookupAndFixUp ==
    /\ sh_pc = "mesh"
    /\ IF sh_rules \in DOMAIN generated_meshes
       THEN /\ sh_mesh' = generated_meshes[sh_rules]
            /\ sh_pc' = "returned"
            /\ UNCHANGED <<sh_used, sh_raised>>
       ELSE LET r == FixUp(sh_rules)
            IN IF r.raised # "none"
               THEN /\ sh_raised' = r.raised
                    /\ sh_pc' = "raised"
                    /\ UNCHANGED <<sh_used, sh_mesh>>
               ELSE /\ sh_used' = r.rules
                    /\ sh_mesh' = BaseMesh
                    /\ sh_pc' = "emit"
                    /\ UNCHANGED sh_raised
    /\ UNCHANGED <<sh_caller, sh_calls, sh_v, sh_e, sh_f, sh_rules,
                   generated_meshes, last_mesh>>
    /\ UNCHANGED <<topo_vars, dc_vars, cut_vars, ch_vars, grid_vars, more_vars>>

\* shape_column_head.py:308-338
EmitFaces ==
    /\ sh_pc = "emit"
    /\ sh_mesh' = [sh_mesh EXCEPT !.face = @ \o RuleFaces(sh_used)]
    /\ sh_pc' = "close"
    /\ UNCHANGED <<sh_caller, sh_calls, sh_v, sh_e, sh_f, sh_rules, sh_used,
                   sh_raised, generated_meshes, last_mesh>>
    /\ UNCHANGED <<topo_vars, dc_vars, cut_vars, ch_vars, grid_vars, more_vars>>

\* shape_column_head.py:343-371
CloseGaps ==
    /\ sh_pc = "close"
    /\ sh_mesh' = remove_unused_vertices(
                     [sh_mesh EXCEPT !.face =
                         @ \o OuterRingTriangles(sh_used) \o InnerQuads(sh_used)])
    /\ sh_pc' = "returned"
    /\ UNCHANGED <<sh_caller, sh_calls, sh_v, sh_e, sh_f, sh_rules, sh_used,
                   sh_raised, generated_meshes, last_mesh>>
    /\ UNCHANGED <<topo_vars, dc_vars, cut_vars, ch_vars, grid_vars, more_vars>>

\* shape_column_head.py:146-148
StoreMesh ==
    /\ sh_pc = "returned"
    /\ sh_caller = "init"
    /\ generated_meshes' = Put(generated_meshes, sh_rules, sh_mesh)
    /\ last_mesh' = sh_mesh
    /\ sh_pc' = "stored"
    /\ UNCHANGED <<sh_caller, sh_calls, sh_v, sh_e, sh_f, sh_rules, sh_used,
                   sh_mesh, sh_raised>>
    /\ UNCHANGED <<topo_vars, dc_vars, cut_vars, ch_vars, grid_vars, more_vars>>

\* the call is over (returned to, or raised into, its caller)
CallOver ==
    \/ sh_pc \in {"stored", "raised"}
    \/ sh_pc = "returned" /\ sh_caller = "direct"

\* the caller goes on; only the class attributes outlive the call
Finish ==
    /\ CallOver
    /\ sh_pc' = "idle"
    /\ sh_caller' = "none"
    /\ sh_v' = <<>>
    /\ sh_e' = <<>>
    /\ sh_f' = <<>>
    /\ sh_rules' = <<>>
    /\ sh_used' = <<>>
    /\ sh_mesh' = NoMesh
    /\ sh_raised' = "none"
    /\ UNCHANGED <<sh_calls, generated_meshes, last_mesh>>
    /\ UNCHANGED <<topo_vars, dc_vars, cut_vars, ch_vars, grid_vars, more_vars>>

NextShape ==
    \/ \E e \in SeqsUpTo(EdgeSet, MaxEdges), f \in SeqsUpTo(FaceSet, MaxFaces) :
          Construct(JunctionPoints, e, f)
    \/ \E rules \in AllRules : CallGenerateMesh(rules)
    \/ LookupAndFixUp
    \/ EmitFaces
    \/ CloseGaps
    \/ StoreMesh
    \/ Finish

SpecShape == InitShape /\ [][NextShape]_vars

(***************************************************************************)
(* Specification of a caller combining two directions in both orders       *)
(***************************************************************************)
InitCombine ==
    /\ TopoIdle
    /\ ShapeIdle
    /\ dc_pc = "start"
    /\ dc_a \in Directions
    /\ dc_b \in Directions
    /\ dc_ab = NoOutcome
    /\ dc_ba = NoOutcome
    /\ CutIdle
    /\ HeadsIdle
    /\ GridIdle
    /\ MoreIdle

CombineAB ==
    /\ dc_pc = "start"
    /\ dc_ab' = get_direction_combination(dc_a, dc_b)
    /\ dc_pc' = "ab"
    /\ UNCHANGED <<dc_a, dc_b, dc_ba>>
    /\ UNCHANGED <<topo_vars, shape_vars, cut_vars, ch_vars, grid_vars, more_vars>>

CombineBA ==
    /\ dc_pc = "ab"
    /\ dc_ba' = get_direction_combination(dc_b, dc_a)
    /\ dc_pc' = "done"
    /\ UNCHANGED <<dc_a, dc_b, dc_ab>>
    /\ UNCHANGED <<topo_vars, shape_vars, cut_vars, ch_vars, grid_vars, more_vars>>

NextCombine == CombineAB \/ CombineBA

SpecCombine == InitCombine /\ [][NextCombine]_vars

(***************************************************************************)
(* Properties of the column-head rule engine                               *)
(***************************************************************************)
\* a diagonal bit may be true only if both adjacent cardinal bits are true
RuleVectorInvariant(rules) ==
    \A i \in 0..3 : rules[i * 2 + 1] => rules[i * 2] /\ rules[(i * 2 + 2) % 8]

\* the vector with every unsupported diagonal bit forced to false
Forced(rules) ==
    [d \in Directions |->
        IF d % 2 = 1 /\ (~rules[d - 1] \/ ~rules[(d + 1) % 8]) THEN FALSE ELSE rules[d]]

MeshEdgeUses(mesh) ==
    {<<i, j>> : i \in 1..Len(mesh.face), j \in 1..4} \cap
    UNION {{<<i, j>> : j \in 1..Len(mesh.face[i])} : i \in 1..Len(mesh.face)}

EdgeAt(mesh, use) ==
    LET face == mesh.face[use[1]]
    IN {face[use[2]], face[(use[2] % Len(face)) + 1]}

\* V - E + F = 2 over the used vertices, every undirected edge on two faces
ClosedManifold(mesh) ==
    LET uses == MeshEdgeUses(mesh)
        edges == {EdgeAt(mesh, u) : u \in uses}
        used == UNION edges
    IN /\ Cardinality(used) - Cardinality(edges) + Len(mesh.face) = 2
       /\ \A ed \in edges : Cardinality({u \in uses : EdgeAt(mesh, u) = ed}) = 2

DirectCallOver == sh_caller = "direct" /\ sh_pc \in {"returned", "raised"}

\* C1: for every one of the 256 rule vectors _generate_mesh raises nothing and
\* returns a closed manifold (V - E + F = 2, every edge shared by two faces).
C1_AllVectorsClosedManifold ==
    DirectCallOver => sh_raised = "none" /\ ClosedManifold(sh_mesh)

\* every mesh that _generate_mesh does return is a closed manifold
ReturnedMeshClosed ==
    sh_pc = "returned" => ClosedManifold(sh_mesh)

\* the fix-up loop has been run on the given vector (no cache hit)
FixUpRun ==
    \/ sh_pc \in {"emit", "close"}
    \/ sh_pc = "raised" /\ sh_caller = "direct"

\* C2: before any face is emitted the fix-up forces every diagonal bit without
\* both neighbouring cardinal bits to false, so the vector used to emit faces
\* is the forced one and satisfies the rule-vector invariant.
C2_FixUpForcesDiagonals ==
    FixUpRun => /\ sh_raised = "none"
                /\ sh_used = Forced(sh_rules)
                /\ RuleVectorInvariant(sh_used)

\* C9: the combination table is symmetric: combining (a, b) and (b, a) has the
\* same outcome, the same diagonal or KeyError in both orders.
C9_CombinationSymmetric ==
    dc_pc = "done" => dc_ab = dc_ba

C9_Witness ==
    /\ dc_pc = "done"
    /\ dc_a # dc_b
    /\ dc_ab.raised = "none"
    /\ dc_ba.raised = "none"

\* _generate_rules has just returned or raised
RulesDerived == sh_caller = "init" /\ sh_pc \in {"mesh", "raised"}

\* the edge loop went through: every edge joins two distinct known points
EdgesAccepted ==
    \A i \in 1..Len(sh_e) :
        /\ sh_e[i][1] \in DOMAIN sh_v
        /\ sh_e[i][2] \in DOMAIN sh_v
        /\ sh_v[sh_e[i][1]] # sh_v[sh_e[i][2]]

\* positions of the boundary edges of a face that are known neighbour edges
MatchingEdges(face) ==
    {i \in 1..Len(face) :
        \E k \in 1..Len(sh_e) :
            {face[i], face[(i % Len(face)) + 1]} = {sh_e[k][1], sh_e[k][2]}}

\* the cardinal direction recorded for the known edge joining a and b
DirectionOfEdge(a, b) ==
    LET k == CHOOSE k \in 1..Len(sh_e) :
                /\ {a, b} = {sh_e[k][1], sh_e[k][2]}
                /\ \A m \in (k + 1)..Len(sh_e) : {a, b} # {sh_e[m][1], sh_e[m][2]}
        p0 == sh_v[sh_e[k][1]]
        p1 == sh_v[sh_e[k][2]]
    IN closest_direction(<<p1[1] - p0[1], p1[2] - p0[2], p1[3] - p0[3]>>).value

FaceDirections(face) ==
    {DirectionOfEdge(face[i], face[(i % Len(face)) + 1]) : i \in MatchingEdges(face)}

SharesTwoEdges(face) == Cardinality(MatchingEdges(face)) = 2

\* two different cardinals a quarter turn apart
AdjacentCardinals(ds) ==
    \E a, b \in ds : a # b /\ ds = {a, b} /\ a % 2 = 0 /\ (a + 2) % 8 = b

\* the diagonal between two adjacent cardinals
DiagonalBetween(ds) ==
    CHOOSE d \in Directions :
        \E a, b \in ds : (a + 2) % 8 = b /\ d = (a + 1) % 8

DiagonalBits(rules) == {d \in Directions : d % 2 = 1 /\ rules[d]}

\* C10 as stated: a face that does not share exactly two edges makes rule
\* derivation raise; a face that does gets exactly the diagonal bit between
\* its two edges' cardinal directions set.
C10_FaceSetsOneDiagonal ==
    RulesDerived /\ EdgesAccepted =>
        IF \E k \in 1..Len(sh_f) : ~SharesTwoEdges(sh_f[k])
        THEN sh_raised # "none"
        ELSE /\ sh_raised = "none"
             /\ DiagonalBits(sh_rules) =
                   {DiagonalBetween(FaceDirections(sh_f[k])) : k \in 1..Len(sh_f)}

FaceRejected(face) ==
    ~SharesTwoEdges(face) \/ ~AdjacentCardinals(FaceDirections(face))

\* C10 amended: a face that does not share exactly two edges raises ValueError
\* (face does not share two edges); a face that does sets exactly the diagonal
\* bit between its two edges' directions when these are adjacent cardinals, and
\* raises KeyError from the table lookup when they are equal or opposite.
C10_FaceSetsDiagonalOrRaises ==
    RulesDerived /\ EdgesAccepted =>
        IF \E k \in 1..Len(sh_f) : FaceRejected(sh_f[k])
        THEN LET k == CHOOSE k \in 1..Len(sh_f) :
                         /\ FaceRejected(sh_f[k])
                         /\ \A m \in 1..(k - 1) : ~FaceRejected(sh_f[m])
             IN sh_raised = IF ~SharesTwoEdges(sh_f[k])
                            THEN "ValueError: face does not share two edges"
                            ELSE "KeyError"
        ELSE /\ sh_raised = "none"
             /\ DiagonalBits(sh_rules) =
                   {DiagonalBetween(FaceDirections(sh_f[k])) : k \in 1..Len(sh_f)}

C10_Witness ==
    /\ RulesDerived
    /\ EdgesAccepted
    /\ sh_raised = "none"
    /\ \E k \in 1..Len(sh_f) :
          /\ SharesTwoEdges(sh_f[k])
          /\ sh_rules[DiagonalBetween(FaceDirections(sh_f[k]))]

\* the vector of the k-th neighbour edge, from its first to its second vertex
EdgeVector(k) ==
    LET p0 == sh_v[sh_e[k][1]]
        p1 == sh_v[sh_e[k][2]]
    IN <<p1[1] - p0[1], p1[2] - p0[2], p1[3] - p0[3]>>

\* the unit vector of a cardinal direction
CardinalUnit(d) ==
    CASE d = NORTH -> <<0, 1, 0>>
      [] d = EAST -> <<1, 0, 0>>
      [] d = SOUTH -> <<0, -1, 0>>
      [] d = WEST -> <<-1, 0, 0>>

Cardinals == {NORTH, EAST, SOUTH, WEST}

\* d is a cardinal with the largest dot product with the vector
IsClosestCardinal(d, vector) ==
    \A c \in Cardinals : Dot(vector, CardinalUnit(c)) <= Dot(vector, CardinalUnit(d))

CardinalBits(rules) == {d \in Cardinals : rules[d]}

\* C11: with no floor faces the derived rule vector has no diagonal bit, and
\* its cardinal bits are exactly the closest cardinals of the neighbour edges:
\* every set bit is closest to some edge and every edge has its closest bit set.
C11_NoFacesOnlyClosestCardinals ==
    RulesDerived /\ sh_raised = "none" /\ sh_f = <<>> =>
        /\ DiagonalBits(sh_rules) = {}
        /\ \A d \in CardinalBits(sh_rules) :
              \E k \in 1..Len(sh_e) : IsClosestCardinal(d, EdgeVector(k))
        /\ \A k \in 1..Len(sh_e) :
              \E d \in CardinalBits(sh_rules) : IsClosestCardinal(d, EdgeVector(k))

\* two beams at 90 degrees, no floor: 2 cardinal bits, 0 diagonal bits
C11_Witness ==
    /\ RulesDerived
    /\ sh_raised = "none"
    /\ sh_f = <<>>
    /\ Len(sh_e) = 2
    /\ Dot(EdgeVector(1), EdgeVector(2)) = 0
    /\ Cardinality(CardinalBits(sh_rules)) = 2
    /\ DiagonalBits(sh_rules) = {}

(***************************************************************************)
(* The interaction graph of a model and the geometry kernel                *)
(***************************************************************************)
MaxInteractions == 2    \* at most this many add_interaction calls
MaxRuns == 1            \* at most this many geometry computations in one run

\* graph nodes of the elements: 0 a beam, 1 a cutter (its geometry is a frame),
\* 2 a column head
Elements == {0, 1, 2}

\* element.geometry before any computation
StoredGeometry(x) ==
    [of |-> x, frame |-> 0, unified |-> FALSE, volume |-> 64, cuts |-> <<>>]

\* candidate add_interaction(a, b, interaction) calls: a plane acts through a
\* cutter interaction, a solid through a boolean difference
InteractionSet ==
    {[a |-> 1, b |-> 0, interaction |-> "InteractionInterfaceCutter"],
     [a |-> 1, b |-> 2, interaction |-> "InteractionInterfaceCutter"],
     [a |-> 2, b |-> 0, interaction |-> "InteractionInterfaceBooleanDifference"],
     [a |-> 0, b |-> 2, interaction |-> "InteractionInterfaceBooleanDifference"],
     [a |-> 1, b |-> 0, interaction |-> "InteractionInterface"],
     [a |-> 2, b |-> 0, interaction |-> "Interaction"],
     [a |-> 0, b |-> 1, interaction |-> "Interaction"]}

\* graph.has_edge((u, v)), directed
has_edge(added, u, v) ==
    \E i \in 1..Len(added) : added[i].a = u /\ added[i].b = v

\* graph.neighbors(node): the keys of adjacency[node], in insertion order
neighbors(added, node) ==
    Dedup(Flatten([i \in 1..Len(added) |->
        IF added[i].a = node THEN <<added[i].b>>
        ELSE IF added[i].b = node THEN <<added[i].a>>
        ELSE <<>>]))

\* graph.edge_interactions(edge)
edge_interactions(added, edge) ==
    Flatten([i \in 1..Len(added) |->
        IF added[i].a = edge[1] /\ added[i].b = edge[2]
        THEN <<added[i].interaction>> ELSE <<>>])

\* what the geometry kernel does with one call: Mesh.slice raises, returns None
\* (no intersection) or two fragments, the larger or the smaller one first;
\* boolean_difference_mesh_mesh raises or returns the vertices and faces
SliceOutcomes ==
    {[kernel |-> "raise", first |-> "-"], [kernel |-> "none", first |-> "-"],
     [kernel |-> "split", first |-> "larger"], [kernel |-> "split", first |-> "smaller"]}

BooleanOutcomes == {[kernel |-> "raise", first |-> "-"], [kernel |-> "mesh", first |-> "-"]}

NoOutcomeNeeded == [kernel |-> "-", first |-> "-"]

\* the two fragments of a 3:1 split, in the order of the kernel's result
Fragments(geometry, by, outcome) ==
    LET quarter == geometry.volume \div 4
        first == IF outcome.first = "larger" THEN geometry.volume - quarter ELSE quarter
        piece(vol) == [geometry EXCEPT !.volume = vol,
                                       !.cuts = @ \o <<[by |-> by, kind |-> "slice"]>>]
    IN <<piece(first), piece(geometry.volume - first)>>

(***************************************************************************)
(* compute_interaction of the interaction classes.  The result record has  *)
(* the exception raised (or "none"), the value returned (NoGeometry for    *)
(* None), the diagnostic collection and the cutter's geometry afterwards.  *)
(***************************************************************************)
\* mutant: the first fragment is dropped and the second returned
CutterInteraction_Second(by, geometry_cutter, geometry, outcome, dbg, sink) ==
    IF outcome.kernel = "raise"
    THEN [raised |-> IF dbg = "unset" THEN "AttributeError" ELSE "none",
          result |-> NoGeometry, cutter |-> geometry_cutter,
          global_property |->
              IF dbg = "True"
              THEN sink \o <<[what |-> "slice_plane", of |-> by],
                             [what |-> "geometry_to_modify", of |-> geometry.of]>>
              ELSE sink]
    ELSE IF outcome.kernel = "none"
    THEN [raised |-> "none", result |-> NoGeometry, cutter |-> geometry_cutter,
          global_property |-> sink]
    ELSE [raised |-> "none", result |-> Fragments(geometry, by, outcome)[2],
          cutter |-> geometry_cutter, global_property |-> sink]

\* interaction_interface_cutter.py:46-69; the handler reads compas_grid.debug,
\* which raises AttributeError where the package does not set it
CutterInteraction(by, geometry_cutter, geometry, outcome, dbg, sink) ==
    IF outcome.kernel = "raise"
    THEN [raised |-> IF dbg = "unset" THEN "AttributeError" ELSE "none",
          result |-> NoGeometry, cutter |-> geometry_cutter,
          global_property |->
              IF dbg = "True"
              THEN sink \o <<[what |-> "slice_plane", of |-> by],
                             [what |-> "geometry_to_modify", of |-> geometry.of]>>
              ELSE sink]
    ELSE IF outcome.kernel = "none"
    THEN [raised |-> "none", result |-> NoGeometry, cutter |-> geometry_cutter,
          global_property |-> sink]
    ELSE [raised |-> "none", result |-> Fragments(geometry, by, outcome)[1],
          cutter |-> geometry_cutter, global_property |-> sink]

\* mutant: the cutter itself is transformed and unified, not a copy of it
BooleanDifferenceInteraction_NoCopy(by, geometry_cutter, geometry, outcome, dbg, sink) ==
    IF outcome.kernel = "raise"
    THEN [raised |-> "Exception", result |-> NoGeometry,
          cutter |-> [geometry_cutter EXCEPT !.unified = TRUE], global_property |-> sink]
    ELSE [raised |-> "none",
          result |-> [geometry EXCEPT
                         !.unified = TRUE,
                         !.volume = @ - (@ \div 4),
                         !.cuts = @ \o <<[by |-> by, kind |-> "boolean"]>>],
          cutter |-> [geometry_cutter EXCEPT !.unified = TRUE], global_property |-> sink]

\* interaction_interface_boolean_difference.py:45-76: the kernel call is not
\* guarded, its exception leaves compute_interaction
BooleanDifferenceInteraction(by, geometry_cutter, geometry, outcome, dbg, sink) ==
    IF outcome.kernel = "raise"
    THEN [raised |-> "Exception", result |-> NoGeometry,
          cutter |-> geometry_cutter, global_property |-> sink]
    ELSE [raised |-> "none",
          result |-> [geometry EXCEPT
                         !.unified = TRUE,
                         !.volume = @ - (@ \div 4),
                         !.cuts = @ \o <<[by |-> by, kind |-> "boolean"]>>],
          cutter |-> geometry_cutter, global_property |-> sink]

\* interaction_interface.py: the base class does nothing and returns None
InterfaceInteraction(by, geometry_cutter, geometry, outcome, dbg, sink) ==
    [raised |-> "none", result |-> NoGeometry, cutter |-> geometry_cutter,
     global_property |-> sink]

\* the kernel outcomes an interaction of this class can meet
OutcomesOf(interaction) ==
    CASE interaction = "InteractionInterfaceCutter" -> SliceOutcomes
      [] interaction = "InteractionInterfaceBooleanDifference" -> BooleanOutcomes
      [] OTHER -> {NoOutcomeNeeded}

\* dispatch of interaction.compute_interaction on the class of the interaction
compute_interaction(interaction, by, geometry_cutter, geometry, outcome, dbg, sink) ==
    CASE interaction = "InteractionInterfaceCutter" ->
            CutterInteraction(by, geometry_cutter, geometry, outcome, dbg, sink)
      [] interaction = "InteractionInterfaceBooleanDifference" ->
            BooleanDifferenceInteraction(by, geometry_cutter, geometry, outcome, dbg, sink)
      [] OTHER ->
            InterfaceInteraction(by, geometry_cutter, geometry, outcome, dbg, sink)

(***************************************************************************)
(* Specification of the cutting pipeline: BaseElement.compute_geometry_model *)
(* and BaseElement.compute_interactions                                    *)
(***************************************************************************)
InitCut ==
    /\ TopoIdle
    /\ ShapeIdle
    /\ CombineIdle
    /\ HeadsIdle
    /\ GridIdle
    /\ MoreIdle
    /\ interactions_added \in SeqsUpTo(InteractionSet, MaxInteractions)
    /\ el_geometry = [x \in Elements |-> StoredGeometry(x)]
    /\ debug \in {"True", "False", "unset"}
    /\ global_property = <<>>
    /\ cut_pc = "idle"
    /\ cut_runs = 0
    /\ cut_self = -1
    /\ cut_xform = "identity"
    /\ cut_neighbors = <<>>
    /\ cut_edge = <<>>
    /\ cut_pending = <<>>
    /\ geometry_to_modify = NoGeometry
    /\ cut_raised = "none"
    /\ cut_calls = <<>>

\* element.py:141-147: compute_geometry_model starts from a transformed copy
ComputeGeometryModel(x) ==
    /\ cut_pc = "idle"
    /\ cut_runs < MaxRuns
    /\ cut_runs' = cut_runs + 1
    /\ cut_self' = x
    /\ cut_xform' = "identity"
    /\ geometry_to_modify' = [el_geometry[x] EXCEPT !.frame = @ + 1]
    /\ cut_neighbors' = neighbors(interactions_added, x)
    /\ cut_pc' = "neighbors"
    /\ cut_calls' = <<>>
    /\ UNCHANGED <<interactions_added, el_geometry, debug, global_property,
                   cut_edge, cut_pending, cut_raised>>
    /\ UNCHANGED <<topo_vars, shape_vars, dc_vars, ch_vars, grid_vars, more_vars>>

\* element.py:200-205: compute_interactions starts from a copy, moved by the
\* inverse world transformation when local_transform is set
ComputeInteractions(x, local_transform) ==
    /\ cut_pc = "idle"
    /\ cut_runs < MaxRuns
    /\ cut_runs' = cut_runs + 1
    /\ cut_self' = x
    /\ cut_xform' = IF local_transform THEN "inverse" ELSE "identity"
    /\ geometry_to_modify' =
          [el_geometry[x] EXCEPT !.frame = IF local_transform THEN @ - 1 ELSE @]
    /\ cut_neighbors' = neighbors(interactions_added, x)
    /\ cut_pc' = "neighbors"
    /\ cut_calls' = <<>>
    /\ UNCHANGED <<interactions_added, el_geometry, debug, global_property,
                   cut_edge, cut_pending, cut_raised>>
    /\ UNCHANGED <<topo_vars, shape_vars, dc_vars, ch_vars, grid_vars, more_vars>>

\* element.py:149-156 (207-214): the next neighbour and its edge; an edge that
\* starts at self is skipped
VisitNeighbor ==
    /\ cut_pc = "neighbors"
    /\ cut_neighbors # <<>>
    /\ LET neighbor == Head(cut_neighbors)
           edge == IF has_edge(interactions_added, cut_self, neighbor)
                   THEN <<cut_self, neighbor>> ELSE <<neighbor, cut_self>>
       IN /\ cut_edge' = edge
          /\ cut_pending' = IF edge[1] = cut_self THEN <<>>
                            ELSE edge_interactions(interactions_added, edge)
    /\ cut_neighbors' = Tail(cut_neighbors)
    /\ cut_pc' = IF cut_pending' = <<>> THEN "neighbors" ELSE "interactions"
    /\ UNCHANGED <<interactions_added, el_geometry, debug, global_property,
                   cut_runs, cut_self, cut_xform, geometry_to_modify, cut_raised,
                   cut_calls>>
    /\ UNCHANGED <<topo_vars, shape_vars, dc_vars, ch_vars, grid_vars, more_vars>>

\* element.py:158-164 (216-222): one interaction of the edge; the kernel's
\* behaviour in the call is the outcome
ApplyInteraction(outcome) ==
    /\ cut_pc = "interactions"
    /\ cut_pending # <<>>
    /\ LET interaction == Head(cut_pending)
           neighbor == cut_edge[1]
       IN IF interaction = "Interaction"
          THEN /\ outcome = NoOutcomeNeeded
               /\ cut_pc' = IF Tail(cut_pending) = <<>> THEN "neighbors" ELSE "interactions"
               /\ UNCHANGED <<el_geometry, global_property, geometry_to_modify,
                              cut_raised, cut_calls>>
          ELSE /\ outcome \in OutcomesOf(interaction)
               /\ LET r == compute_interaction(interaction, neighbor, el_geometry[neighbor],
                                               geometry_to_modify, outcome, debug,
                                               global_property)
                  IN /\ el_geometry' = [el_geometry EXCEPT ![neighbor] = r.cutter]
                     /\ global_property' = r.global_property
                     /\ cut_raised' = r.raised
                     /\ cut_calls' = Append(cut_calls,
                            [edge |-> cut_edge, interaction |-> interaction,
                             kernel |-> outcome.kernel, first |-> outcome.first,
                             before |-> geometry_to_modify])
                     /\ geometry_to_modify' =
                           IF r.raised = "none" /\ r.result # NoGeometry
                           THEN r.result ELSE geometry_to_modify
                     /\ cut_pc' = IF r.raised # "none" THEN "raised"
                                  ELSE IF Tail(cut_pending) = <<>> THEN "neighbors"
                                  ELSE "interactions"
    /\ cut_pending' = Tail(cut_pending)
    /\ UNCHANGED <<interactions_added, debug, cut_runs, cut_self, cut_xform,
                   cut_neighbors, cut_edge>>
    /\ UNCHANGED <<topo_vars, shape_vars, dc_vars, ch_vars, grid_vars, more_vars>>

\* element.py:166 (224)
ReturnGeometry ==
    /\ cut_pc = "neighbors"
    /\ cut_neighbors = <<>>
    /\ cut_pc' = "returned"
    /\ UNCHANGED <<interactions_added, el_geometry, debug, global_property,
                   cut_runs, cut_self, cut_xform, cut_neighbors, cut_edge, cut_pending,
                   geometry_to_modify, cut_raised, cut_calls>>
    /\ UNCHANGED <<topo_vars, shape_vars, dc_vars, ch_vars, grid_vars, more_vars>>

\* the caller goes on: the stored geometries and the diagnostic collection
\* outlive the computation
FinishCut ==
    /\ cut_pc \in {"returned", "raised"}
    /\ cut_pc' = "idle"
    /\ cut_self' = -1
    /\ cut_xform' = "identity"
    /\ cut_neighbors' = <<>>
    /\ cut_edge' = <<>>
    /\ cut_pending' = <<>>
    /\ geometry_to_modify' = NoGeometry
    /\ cut_raised' = "none"
    /\ cut_calls' = <<>>
    /\ UNCHANGED <<interactions_added, el_geometry, debug, global_property, cut_runs>>
    /\ UNCHANGED <<topo_vars, shape_vars, dc_vars, ch_vars, grid_vars, more_vars>>

NextCut ==
    \/ \E x \in Elements : ComputeGeometryModel(x)
    \/ \E x \in Elements, local_transform \in BOOLEAN : ComputeInteractions(x, local_transform)
    \/ VisitNeighbor
    \/ \E outcome \in SliceOutcomes \cup BooleanOutcomes \cup {NoOutcomeNeeded} :
          ApplyInteraction(outcome)
    \/ ReturnGeometry
    \/ FinishCut

SpecCut == InitCut /\ [][NextCut]_vars

(***************************************************************************)
(* Properties of the cutting pipeline                                      *)
(***************************************************************************)
\* the geometry being computed right after the i-th compute_interaction call
AfterCall(i) ==
    IF i < Len(cut_calls) THEN cut_calls[i + 1].before ELSE geometry_to_modify

CutRunning == cut_pc \in {"neighbors", "interactions", "returned", "raised"}

\* C12: computing the geometry of x applies an interaction of edge (u, v) only
\* if v = x; an edge whose source is x never modifies x; and the stored
\* geometry of every modifier is left as it was.
C12_OnlyIncomingEdgesCut ==
    CutRunning =>
        /\ \A i \in 1..Len(cut_calls) :
              /\ cut_calls[i].edge[2] = cut_self
              /\ cut_calls[i].edge[1] # cut_self
              /\ has_edge(interactions_added, cut_calls[i].edge[1], cut_self)
        /\ \A k \in 1..Len(geometry_to_modify.cuts) :
              /\ geometry_to_modify.cuts[k].by # cut_self
              /\ has_edge(interactions_added, geometry_to_modify.cuts[k].by, cut_self)
        /\ geometry_to_modify.of = cut_self
        /\ \A u \in Elements : el_geometry[u] = StoredGeometry(u)

\* x has an edge going out and was cut through an edge coming in
C12_Witness ==
    /\ cut_pc = "returned"
    /\ \E i \in 1..Len(interactions_added) : interactions_added[i].a = cut_self
    /\ \E k \in 1..Len(geometry_to_modify.cuts) :
          geometry_to_modify.cuts[k].kind = "boolean"

\* C13: a kernel failure during a cut does not make the computation raise: the
\* offending inputs are recorded in the diagnostic collection, the target keeps
\* the geometry it had before that cut, and the run goes on.
C13_KernelFailureRecovered ==
    CutRunning =>
        \A i \in 1..Len(cut_calls) :
            cut_calls[i].kernel = "raise" =>
                /\ cut_pc # "raised"
                /\ cut_raised = "none"
                /\ AfterCall(i) = cut_calls[i].before
                /\ \E k \in 1..Len(global_property) :
                      global_property[k].of = cut_calls[i].edge[1]
                /\ \E k \in 1..Len(global_property) :
                      /\ global_property[k].what = "geometry_to_modify"
                      /\ global_property[k].of = cut_self

\* C14 as stated: a plane slice that yields two fragments retains the larger
\* one, whichever position it has in the kernel's result.
C14_LargerFragmentRetained ==
    CutRunning =>
        \A i \in 1..Len(cut_calls) :
            cut_calls[i].kernel = "split" =>
                AfterCall(i).volume =
                    cut_calls[i].before.volume - (cut_calls[i].before.volume \div 4)

\* C14 amended: a plane slice that yields two fragments retains the first
\* fragment of the kernel's result, whatever its volume.
C14_FirstFragmentRetained ==
    CutRunning =>
        \A i \in 1..Len(cut_calls) :
            cut_calls[i].kernel = "split" =>
                LET quarter == cut_calls[i].before.volume \div 4
                IN /\ AfterCall(i).volume =
                         IF cut_calls[i].first = "larger"
                         THEN cut_calls[i].before.volume - quarter ELSE quarter
                   /\ Len(AfterCall(i).cuts) = Len(cut_calls[i].before.cuts) + 1

\* a 3:1 split whose first fragment is the small one: the small one is kept
C14_Witness ==
    /\ cut_pc = "returned"
    /\ \E i \in 1..Len(cut_calls) :
          /\ cut_calls[i].kernel = "split"
          /\ cut_calls[i].first = "smaller"
          /\ 3 * AfterCall(i).volume = cut_calls[i].before.volume - AfterCall(i).volume

(***************************************************************************)
(* Properties of the mesh cache                                            *)
(***************************************************************************)
\* C15: meshes are memoized by rule vector: a construction starts generating
\* only for a vector that is not cached yet, a cached mesh is never replaced,
\* and a finished construction exposes the cached mesh of its rule vector.
C15_MemoizedByRuleVector ==
    [][/\ (sh_caller = "init" /\ sh_pc = "mesh" /\ sh_pc' = "emit"
              => sh_rules \notin DOMAIN generated_meshes)
       /\ \A r \in DOMAIN generated_meshes :
             r \in DOMAIN generated_meshes' /\ generated_meshes'[r] = generated_meshes[r]
       /\ (sh_pc' = "stored"
              => /\ sh_rules' \in DOMAIN generated_meshes'
                 /\ last_mesh' = generated_meshes'[sh_rules']
                 /\ (sh_rules' \in DOMAIN generated_meshes
                        => last_mesh' = generated_meshes[sh_rules']))]_vars

\* a construction whose rule vector was cached by an earlier one
C15_Witness ==
    /\ sh_caller = "init"
    /\ sh_pc = "stored"
    /\ sh_calls > 1
    /\ sh_used = <<>>
    /\ last_mesh = generated_meshes[sh_rules]

(***************************************************************************)
(* Column-head elements and the template meshes they are made from         *)
(***************************************************************************)
MaxHeads == 2       \* at most this many column-head elements

\* the mesh _generate_mesh builds from a rule vector (shape_column_head.py:301-371)
GeneratedMesh(rules) ==
    remove_unused_vertices(
        [BaseMesh EXCEPT !.face =
            @ \o RuleFaces(rules) \o OuterRingTriangles(rules) \o InnerQuads(rules)])

\* shape_column_head.py:146 on the outcome r of _generate_rules: the exception
\* raised, the rule vector and the cache afterwards
StoreGenerated(cache, r) ==
    IF r.raised # "none"
    THEN [raised |-> r.raised, rules |-> <<>>, generated_meshes |-> cache]
    ELSE IF r.rules \in DOMAIN cache
    THEN [raised |-> "none", rules |-> r.rules, generated_meshes |-> cache]
    ELSE IF FixUp(r.rules).raised # "none"
    THEN [raised |-> FixUp(r.rules).raised, rules |-> <<>>, generated_meshes |-> cache]
    ELSE [raised |-> "none", rules |-> r.rules,
          generated_meshes |-> Put(cache, r.rules, GeneratedMesh(FixUp(r.rules).rules))]

\* ColumnHeadCrossShape(v, e, f, ...) as one step (shape_column_head.py:145-147)
column_head_cross_shape(cache, v, e, f) ==
    StoreGenerated(cache, generate_rules(v, e, f))

\* mutant: the element keeps the cached mesh itself
TemplateCopy_Shared(rules, mesh) == [ref |-> "cache", key |-> rules, mesh |-> NoMesh]

\* column_head_cross_shape.mesh.copy(): the element's shape is a mesh of its own
TemplateCopy(rules, mesh) == [ref |-> "own", key |-> rules, mesh |-> mesh]

\* the mesh a shape reference stands for
ShapeMesh(cache, shape) ==
    IF shape.ref = "cache" THEN cache[shape.key] ELSE shape.mesh

\* the element made from the outcome s of the shape's construction
ElementOfShape(cls, s) ==
    [raised |-> s.raised,
     generated_meshes |-> s.generated_meshes,
     element |-> IF s.raised # "none" THEN <<>>
                 ELSE <<[cls |-> cls,
                         shape |-> TemplateCopy(s.rules, s.generated_meshes[s.rules]),
                         transformation |-> "none",
                         geometry |-> FALSE]>>]

\* a new column-head element made from v, e, f
NewColumnHead(cls, cache, v, e, f) ==
    ElementOfShape(cls, column_head_cross_shape(cache, v, e, f))

\* the v, e, f the elements are made from: an L-junction without and with its
\* floor, a single beam, and a floor between two opposite beams
HeadInputs ==
    {[e |-> << <<0, 1>>, <<0, 2>> >>, f |-> <<>>],
     [e |-> << <<0, 1>>, <<0, 2>> >>, f |-> << <<1, 0, 2, 5>> >>],
     [e |-> << <<0, 1>> >>, f |-> <<>>],
     [e |-> << <<0, 1>>, <<0, 3>> >>, f |-> << <<1, 0, 3>> >>]}

InitHeads ==
    /\ TopoIdle
    /\ ShapeIdle
    /\ CombineIdle
    /\ CutIdle
    /\ GridIdle
    /\ MoreIdle
    /\ ch_elements = <<>>

\* a constructor of a column-head element has run on the input
Created(cls, in) ==
    /\ Len(ch_elements) < MaxHeads
    /\ \E n \in {NewColumnHead(cls, generated_meshes, JunctionPoints, in.e, in.f)} :
          /\ generated_meshes' = n.generated_meshes
          /\ last_mesh' = IF n.raised = "none"
                          THEN n.generated_meshes[n.element[1].shape.key] ELSE last_mesh
          /\ ch_elements' = ch_elements \o n.element
    /\ UNCHANGED <<sh_pc, sh_caller, sh_calls, sh_v, sh_e, sh_f, sh_rules, sh_used,
                   sh_mesh, sh_raised>>
    /\ UNCHANGED <<topo_vars, dc_vars, cut_vars, grid_vars, more_vars>>

\* element_column_head.py:222-225
FromColumnHeadCrossShape(in) == Created("ColumnHeadElement", in)

\* element_column_head_cross.py:114-124
NewColumnHeadCrossElement(in) == Created("ColumnHeadCrossElement", in)

\* model_grid.py:204-206: element.transformation = orientation
SetTransformation(i) ==
    /\ i \in 1..Len(ch_elements)
    /\ ch_elements[i].transformation = "none"
    /\ ch_elements' = [ch_elements EXCEPT ![i].transformation = "placed"]
    /\ UNCHANGED <<shape_vars, topo_vars, dc_vars, cut_vars, grid_vars, more_vars>>

\* element.geometry, first use: the shape is transformed in place by the world
\* transformation and kept as the geometry
ComputeGeometry(i) ==
    /\ i \in 1..Len(ch_elements)
    /\ ~ch_elements[i].geometry
    /\ LET shape == ch_elements[i].shape
       IN IF shape.ref = "cache"
          THEN /\ generated_meshes' =
                     [generated_meshes EXCEPT ![shape.key].moved = @ + 1]
               /\ ch_elements' = [ch_elements EXCEPT ![i].geometry = TRUE]
          ELSE /\ ch_elements' = [ch_elements EXCEPT ![i].geometry = TRUE,
                                                     ![i].shape.mesh.moved = @ + 1]
               /\ UNCHANGED generated_meshes
    /\ UNCHANGED <<sh_pc, sh_caller, sh_calls, sh_v, sh_e, sh_f, sh_rules, sh_used,
                   sh_mesh, sh_raised, last_mesh>>
    /\ UNCHANGED <<topo_vars, dc_vars, cut_vars, grid_vars, more_vars>>

NextHeads ==
    \/ \E in \in HeadInputs : FromColumnHeadCrossShape(in)
    \/ \E in \in HeadInputs : NewColumnHeadCrossElement(in)
    \/ \E i \in 1..MaxHeads : SetTransformation(i)
    \/ \E i \in 1..MaxHeads : ComputeGeometry(i)

SpecHeads == InitHeads /\ [][NextHeads]_vars

\* C16: the cached template meshes are never changed by their users: every
\* cache entry is the mesh generated for its rule vector, untouched, and every
\* element's shape is a mesh of its own.
C16_TemplatesNeverMutated ==
    /\ \A r \in DOMAIN generated_meshes : generated_meshes[r] = GeneratedMesh(r)
    /\ \A i \in 1..Len(ch_elements) :
          /\ ch_elements[i].shape.ref = "own"
          /\ ch_elements[i].shape.key \in DOMAIN generated_meshes

\* two elements made from one template, one of them moved by its geometry
C16_Witness ==
    /\ Len(ch_elements) = 2
    /\ ch_elements[1].shape.key = ch_elements[2].shape.key
    /\ ch_elements[1].geometry
    /\ ch_elements[1].transformation = "placed"
    /\ ch_elements[1].shape.mesh.moved = 1
    /\ generated_meshes[ch_elements[1].shape.key].moved = 0

(***************************************************************************)
(* GridModel.from_lines_and_surfaces                                       *)
(* (src/src/compas_grid/models/model_grid.py)                              *)
(***************************************************************************)
MaxGridLines == 3   \* at most this many lines given to the grid builder
MaxFloors == 1      \* at most this many floor meshes given to the grid builder

\* cell_network.edges_where({flag: True}), in the order of the edge dict
edges_where(cn, flag) ==
    Flatten([i \in 1..Len(cn.edge) |->
        IF flag \in cn.edge_data[i] THEN <<cn.edge[i]>> ELSE <<>>])

\* cell_network.faces_where({flag: True})
faces_where(cn, flag) ==
    Flatten([k \in 1..Len(cn.face) |->
        IF flag \in cn.face_data[k] THEN <<k>> ELSE <<>>])

\* list(set(cell_network.vertex_faces(vertex)))
vertex_faces(cn, vertex) ==
    Flatten([k \in 1..Len(cn.face) |->
        IF vertex \in Range(cn.face[k]) THEN <<k>> ELSE <<>>])

\* mutant: the end vertex of the edge, whatever the elevations
ColumnHeadVertex_NoSwap(cn, edge) == edge[2]

\* model_grid.py:172-176: the higher end of the column edge
ColumnHeadVertex(cn, edge) ==
    IF cn.vertex[edge[1]][3] > cn.vertex[edge[2]][3] THEN edge[1] ELSE edge[2]

\* model_grid.py:252-257
ColumnBaseVertex(cn, edge) ==
    IF ColumnHeadVertex(cn, edge) = edge[1] THEN edge[2] ELSE edge[1]

\* model_grid.py:179-191: v, e, f of the column head at a vertex
HeadV(cn, head) ==
    [w \in {head} \cup Range(cn.neighbors[head]) |-> cn.vertex[w]]

\* mutant: only the first neighbour edge is handed to the head
HeadE_FirstOnly(cn, head) ==
    [j \in 1..(IF cn.neighbors[head] = <<>> THEN 0 ELSE 1) |->
        <<head, cn.neighbors[head][j]>>]

HeadE(cn, head) ==
    [j \in 1..Len(cn.neighbors[head]) |-> <<head, cn.neighbors[head][j]>>]

HeadF(cn, head) ==
    LET fs == vertex_faces(cn, head)
    IN Flatten([j \in 1..Len(fs) |->
          IF "is_floor" \in cn.face_data[fs[j]] THEN <<cn.face[fs[j]]>> ELSE <<>>])

\* the model under construction, as the builder's steps pass it on
Model ==
    [elements |-> gm_elements, interactions |-> gm_interactions,
     ops |-> gm_ops, raised |-> gm_raised]

\* model.add_element(element)
add_element(st, element) ==
    [st EXCEPT !.elements = Append(@, element), !.ops = Append(@, "add_element")]

\* model.add_interaction(a, b, interaction): the directed edge a -> b
add_interaction(st, a, b, interaction) ==
    [st EXCEPT
        !.interactions = Append(@, [a |-> a, b |-> b, interaction |-> interaction]),
        !.ops = Append(@, "add_interaction")]

\* an element of the model; `of` names what it was made for
GridElement(kind, of, rules) == [kind |-> kind, of |-> of, rules |-> rules]

\* mutant: the semantic edge is entered in both directions
AddCutter_BothWays(st, head, target) ==
    LET s1 == add_element(st, GridElement("cutter", <<head, target>>, NoRules))
        s2 == add_interaction(s1, Len(s1.elements), target, "InteractionInterface")
        s3 == add_interaction(s2, head, target, "Interaction")
    IN add_interaction(s3, target, head, "Interaction")

\* model_grid.py:260-270 (and 279-290, 305-313, 326-334, 360-371): a new
\* cutter element, the edge cutter -> target and the edge head -> target
AddCutter(st, head, target) ==
    LET s1 == add_element(st, GridElement("cutter", <<head, target>>, NoRules))
        s2 == add_interaction(s1, Len(s1.elements), target, "InteractionInterface")
    IN add_interaction(s2, head, target, "Interaction")

\* geometry.faces_where({"direction": direction})[0] on the head, then the
\* cutter: the head's mesh has faces of a direction only if its rule is set
CutAt(st, head, target, direction) ==
    IF st.raised # "none" THEN st
    ELSE IF direction.raised # "none" THEN [st EXCEPT !.raised = direction.raised]
    ELSE IF ~st.elements[head].rules[direction.value]
    THEN [st EXCEPT !.raised = "IndexError"]
    ELSE AddCutter(st, head, target)

\* cell_network.vertex_point(b) - cell_network.vertex_point(a)
VectorBetween(cn, a, b) ==
    <<cn.vertex[b][1] - cn.vertex[a][1], cn.vertex[b][2] - cn.vertex[a][2],
      cn.vertex[b][3] - cn.vertex[a][3]>>

\* model_grid.py:244-248: the plate is entered under every vertex of its face
RECURSIVE RegisterPlate(_, _, _, _)
RegisterPlate(dict, plate, face, j) ==
    IF j = 0 THEN dict
    ELSE LET prev == RegisterPlate(dict, plate, face, j - 1)
             at == CHOOSE i \in 0..Len(prev) :
                      IF \E k \in 1..Len(prev) : prev[k].vertex = face[j]
                      THEN i # 0 /\ prev[i].vertex = face[j] ELSE i = 0
         IN IF at = 0
            THEN Append(prev, [vertex |-> face[j], items |-> << <<plate, face>> >>])
            ELSE [prev EXCEPT ![at].items = Append(@, <<plate, face>>)]

\* mutant: the columns are cut before the floors are added
Phases_CutBeforeFloors ==
    <<"heads", "columns", "beams", "i_columns", "floors", "i_beams", "i_floors">>

\* model_grid.py:379-400: the seven loops, in order
Phases ==
    <<"heads", "columns", "beams", "floors", "i_columns", "i_beams", "i_floors">>

PhaseLen(cn, plates, phase) ==
    CASE phase \in {"heads", "columns", "i_columns"} -> Len(edges_where(cn, "is_column"))
      [] phase \in {"beams", "i_beams"} -> Len(edges_where(cn, "is_beam"))
      [] phase = "floors" -> Len(faces_where(cn, "is_floor"))
      [] OTHER -> Len(plates)

\* the loop and index at which the builder continues
RECURSIVE Position(_, _, _, _)
Position(cn, plates, k, i) ==
    IF k > Len(Phases) THEN [pc |-> "done", i |-> 0]
    ELSE IF i <= PhaseLen(cn, plates, Phases[k]) THEN [pc |-> Phases[k], i |-> i]
    ELSE Position(cn, plates, k + 1, 1)


\* the inputs lie on a one-bay frame: column feet B*, column tops T*, a
\* storey above (U0) and a point east of the bay (X).  The lines are a
\* column, a column drawn top-down, a column stacked on the first, two
\* beams, and a raking column that ends at the top of the first
GridLineSet ==
    LET B0 == <<0, 0, 0>>
        B1 == <<3000, 0, 0>>
        T0 == <<0, 0, 9000>>
        T1 == <<3000, 0, 9000>>
        T2 == <<0, 3000, 9000>>
        U0 == <<0, 0, 18000>>
    IN {<<B0, T0>>, <<T1, B1>>, <<T0, U0>>, <<T0, T1>>, <<T0, T2>>, <<B1, T0>>}

\* a square floor, and a triangular one whose two edges at T0 both run east
GridMeshSet ==
    LET T0 == <<0, 0, 9000>>
        T1 == <<3000, 0, 9000>>
        T2 == <<0, 3000, 9000>>
        T3 == <<3000, 3000, 9000>>
        X == <<6000, 3000, 9000>>
    IN {[vertices |-> <<T0, T1, T3, T2>>, faces |-> << <<1, 2, 3, 4>> >>],
        [vertices |-> <<T0, T1, X>>, faces |-> << <<1, 2, 3>> >>]}

\* what the grid builder reads but never writes
grid_inputs == <<column_and_beams, floor_surfaces, pc, graph>>

sh_call == <<sh_pc, sh_caller, sh_calls, sh_v, sh_e, sh_f, sh_rules, sh_used,
             sh_mesh, sh_raised>>

InitGrid ==
    /\ column_and_beams \in SeqsUpTo(GridLineSet, MaxGridLines)
    /\ floor_surfaces \in SeqsUpTo(GridMeshSet, MaxFloors)
    /\ pc = "idle"
    /\ graph = EmptyGraph
    /\ cell_network = EmptyCellNetwork
    /\ ShapeIdle
    /\ CombineIdle
    /\ CutIdle
    /\ HeadsIdle
    /\ GridIdle
    /\ MoreIdle

\* the model after a step of a loop, and where the builder continues
Step(phase, st, plates) ==
    /\ gm_elements' = st.elements
    /\ gm_interactions' = st.interactions
    /\ gm_ops' = st.ops
    /\ gm_raised' = st.raised
    /\ vertex_to_plates_and_faces' = plates
    /\ IF st.raised # "none"
       THEN gm_pc' = "raised" /\ gm_i' = gm_i
       ELSE LET p == Position(cell_network, plates, IndexOf(Phases, phase), gm_i + 1)
            IN gm_pc' = p.pc /\ gm_i' = p.i

\* model_grid.py:154-166
BuildTopology ==
    /\ gm_pc = "idle"
    /\ cell_network' = BuildCellNetwork(column_and_beams, floor_surfaces)
    /\ LET p == Position(cell_network', <<>>, 1, 1)
       IN gm_pc' = p.pc /\ gm_i' = p.i
    /\ UNCHANGED <<gm_elements, gm_interactions, gm_ops, column_head_to_vertex,
                   column_to_edge, beam_to_edge, vertex_to_plates_and_faces, gm_raised>>
    /\ UNCHANGED <<grid_inputs, shape_vars, dc_vars, cut_vars, ch_vars, more_vars>>

\* model_grid.py:170-212
AddColumnHead ==
    /\ gm_pc = "heads"
    /\ \E head \in {ColumnHeadVertex(cell_network,
                                       edges_where(cell_network, "is_column")[gm_i])} :
       \E n \in {NewColumnHead("ColumnHeadElement", generated_meshes,
                               HeadV(cell_network, head), HeadE(cell_network, head),
                               HeadF(cell_network, head))} :
          /\ generated_meshes' = n.generated_meshes
          /\ IF n.raised # "none"
             THEN /\ Step("heads", [Model EXCEPT !.raised = n.raised], vertex_to_plates_and_faces)
                  /\ UNCHANGED <<last_mesh, column_head_to_vertex>>
             ELSE /\ Step("heads", add_element(Model,
                                GridElement("column_head", <<head>>, n.element[1].shape.key)),
                          vertex_to_plates_and_faces)
                  /\ last_mesh' = n.generated_meshes[n.element[1].shape.key]
                  /\ column_head_to_vertex' =
                        Put(column_head_to_vertex, head, Len(gm_elements) + 1)
    /\ UNCHANGED <<cell_network, column_to_edge, beam_to_edge>>
    /\ UNCHANGED <<grid_inputs, sh_call, dc_vars, cut_vars, ch_vars, more_vars>>

\* model_grid.py:214-225
AddColumn ==
    /\ gm_pc = "columns"
    /\ LET edge == edges_where(cell_network, "is_column")[gm_i]
       IN /\ Step("columns", add_element(Model, GridElement("column", edge, NoRules)),
                  vertex_to_plates_and_faces)
          /\ column_to_edge' = Put(column_to_edge, edge, Len(gm_elements) + 1)
    /\ UNCHANGED <<cell_network, column_head_to_vertex, beam_to_edge>>
    /\ UNCHANGED <<grid_inputs, shape_vars, dc_vars, cut_vars, ch_vars, more_vars>>

\* model_grid.py:227-234
AddBeam ==
    /\ gm_pc = "beams"
    /\ LET edge == edges_where(cell_network, "is_beam")[gm_i]
       IN /\ Step("beams", add_element(Model, GridElement("beam", edge, NoRules)),
                  vertex_to_plates_and_faces)
          /\ beam_to_edge' = Put(beam_to_edge, edge, Len(gm_elements) + 1)
    /\ UNCHANGED <<cell_network, column_head_to_vertex, column_to_edge>>
    /\ UNCHANGED <<grid_inputs, shape_vars, dc_vars, cut_vars, ch_vars, more_vars>>

\* model_grid.py:236-248
AddFloor ==
    /\ gm_pc = "floors"
    /\ LET face == faces_where(cell_network, "is_floor")[gm_i]
           vertices == cell_network.face[face]
       IN Step("floors", add_element(Model, GridElement("plate", <<face>>, NoRules)),
               RegisterPlate(vertex_to_plates_and_faces, Len(gm_elements) + 1,
                             vertices, Len(vertices)))
    /\ UNCHANGED <<cell_network, column_head_to_vertex, column_to_edge, beam_to_edge>>
    /\ UNCHANGED <<grid_inputs, shape_vars, dc_vars, cut_vars, ch_vars, more_vars>>


\* mutant: only the head on top of the column cuts it
InteractionColumn_TopOnly(st, cn, heads, columns, edge) ==
    IF ColumnHeadVertex(cn, edge) \in DOMAIN heads
    THEN AddCutter(st, heads[ColumnHeadVertex(cn, edge)], columns[edge]) ELSE st

\* model_grid.py:250-295: the head on top of the column, then the head under it
InteractionColumn(st, cn, heads, columns, edge) ==
    LET top == ColumnHeadVertex(cn, edge)
        base == ColumnBaseVertex(cn, edge)
        s1 == IF top \in DOMAIN heads
              THEN AddCutter(st, heads[top], columns[edge]) ELSE st
    IN IF base \in DOMAIN heads
       THEN AddCutter(s1, heads[base], columns[edge]) ELSE s1

\* model_grid.py:297-340: the head at edge[0], then the head at edge[1]
InteractionBeam(st, cn, heads, beams, edge) ==
    LET s1 == IF edge[1] \in DOMAIN heads
              THEN CutAt(st, heads[edge[1]], beams[edge],
                         closest_direction(VectorBetween(cn, edge[1], edge[2])))
              ELSE st
    IN IF edge[2] \in DOMAIN heads
       THEN CutAt(s1, heads[edge[2]], beams[edge],
                  closest_direction(VectorBetween(cn, edge[2], edge[1])))
       ELSE s1

\* model_grid.py:349-357: the diagonal between the two face edges at the vertex
DirectionAngled(cn, face, vertex) ==
    LET i == IndexOf(face, vertex)
        prev == face[((i - 2) % Len(face)) + 1]
        next == face[(i % Len(face)) + 1]
        direction0 == closest_direction(VectorBetween(cn, vertex, prev))
        direction1 == closest_direction(VectorBetween(cn, vertex, next))
    IN IF direction0.raised # "none" THEN direction0
       ELSE IF direction1.raised # "none" THEN direction1
       ELSE get_direction_combination(direction0.value, direction1.value)

\* model_grid.py:342-377
RECURSIVE InteractionFloor(_, _, _, _, _, _)
InteractionFloor(st, cn, heads, vertex, items, j) ==
    IF vertex \notin DOMAIN heads \/ j = 0 THEN st
    ELSE CutAt(InteractionFloor(st, cn, heads, vertex, items, j - 1),
               heads[vertex], items[j][1],
               DirectionAngled(cn, items[j][2], vertex))

AddInteractionColumn ==
    /\ gm_pc = "i_columns"
    /\ Step("i_columns", InteractionColumn(Model, cell_network, column_head_to_vertex, column_to_edge,
                                 edges_where(cell_network, "is_column")[gm_i]),
            vertex_to_plates_and_faces)
    /\ UNCHANGED <<cell_network, column_head_to_vertex, column_to_edge, beam_to_edge>>
    /\ UNCHANGED <<grid_inputs, shape_vars, dc_vars, cut_vars, ch_vars, more_vars>>

AddInteractionBeam ==
    /\ gm_pc = "i_beams"
    /\ Step("i_beams", InteractionBeam(Model, cell_network, column_head_to_vertex, beam_to_edge,
                               edges_where(cell_network, "is_beam")[gm_i]),
            vertex_to_plates_and_faces)
    /\ UNCHANGED <<cell_network, column_head_to_vertex, column_to_edge, beam_to_edge>>
    /\ UNCHANGED <<grid_inputs, shape_vars, dc_vars, cut_vars, ch_vars, more_vars>>

AddInteractionFloor ==
    /\ gm_pc = "i_floors"
    /\ LET entry == vertex_to_plates_and_faces[gm_i]
       IN Step("i_floors", InteractionFloor(Model, cell_network, column_head_to_vertex,
                                   entry.vertex, entry.items, Len(entry.items)),
               vertex_to_plates_and_faces)
    /\ UNCHANGED <<cell_network, column_head_to_vertex, column_to_edge, beam_to_edge>>
    /\ UNCHANGED <<grid_inputs, shape_vars, dc_vars, cut_vars, ch_vars, more_vars>>

NextGrid ==
    \/ BuildTopology
    \/ AddColumnHead
    \/ AddColumn
    \/ AddBeam
    \/ AddFloor
    \/ AddInteractionColumn
    \/ AddInteractionBeam
    \/ AddInteractionFloor

SpecGrid == InitGrid /\ [][NextGrid]_vars

GridDone == gm_pc = "done"

\* elements of a kind made for a primitive
ElementsFor(kind, of) == {i \in 1..Len(gm_elements) :
                             gm_elements[i].kind = kind /\ gm_elements[i].of = of}


Columns == edges_where(cell_network, "is_column")

Beams == edges_where(cell_network, "is_beam")

Floors == faces_where(cell_network, "is_floor")

Vertices == 1..Len(cell_network.vertex)

\* the vertices with at least one incident beam edge
BeamJunctions ==
    {w \in Vertices : \E i \in 1..Len(Beams) : w \in {Beams[i][1], Beams[i][2]}}

\* the higher of the two end vertices of an edge
UpperEnd(edge) ==
    CHOOSE w \in {edge[1], edge[2]} :
        \A u \in {edge[1], edge[2]} :
            cell_network.vertex[w][3] >= cell_network.vertex[u][3]

ElementsOfKind(kind) ==
    {i \in 1..Len(gm_elements) : gm_elements[i].kind = kind}

\* one column per is_column edge, one beam per is_beam edge, one plate per
\* is_floor face, and no other column, beam or plate
OncePerEdgeAndFace ==
    /\ \A i \in 1..Len(Columns) : Cardinality(ElementsFor("column", Columns[i])) = 1
    /\ \A i \in 1..Len(Beams) : Cardinality(ElementsFor("beam", Beams[i])) = 1
    /\ \A i \in 1..Len(Floors) : Cardinality(ElementsFor("plate", <<Floors[i]>>)) = 1
    /\ Cardinality(ElementsOfKind("column")) = Len(Columns)
    /\ Cardinality(ElementsOfKind("beam")) = Len(Beams)
    /\ Cardinality(ElementsOfKind("plate")) = Len(Floors)
    /\ Cardinality({j \in 1..Len(gm_ops) : gm_ops[j] = "add_element"}) = Len(gm_elements)

\* C17 as claimed: when the builder returns there is one column, beam and
\* plate per edge and face, and one column head at every vertex with an
\* incident beam and none at any other vertex.
C17_HeadPerBeamJunction ==
    GridDone =>
        /\ OncePerEdgeAndFace
        /\ \A w \in Vertices :
              Cardinality(ElementsFor("column_head", <<w>>)) =
                  IF w \in BeamJunctions THEN 1 ELSE 0

\* C17 as amended: when the builder returns there is one column, beam and
\* plate per edge and face, and one column head per is_column edge, at the
\* higher end vertex of that edge, whether or not a beam meets it.
C17_HeadPerColumnEdge ==
    GridDone =>
        /\ OncePerEdgeAndFace
        /\ \A w \in Vertices :
              Cardinality(ElementsFor("column_head", <<w>>)) =
                  Cardinality({i \in 1..Len(Columns) : UpperEnd(Columns[i]) = w})
        /\ Cardinality(ElementsOfKind("column_head")) = Len(Columns)

\* a finished build with columns, beams and a floor, one column drawn
\* top-down, and a column head at a vertex no beam meets
C17_Witness ==
    /\ GridDone
    /\ Len(Beams) > 0
    /\ Len(Floors) > 0
    /\ \E i \in 1..Len(Columns) : UpperEnd(Columns[i]) = Columns[i][1]
    /\ \E i \in ElementsOfKind("column_head") :
          gm_elements[i].of[1] \notin BeamJunctions


\* the vertices that carry a column head
HeadVertices ==
    {w \in Vertices : ElementsFor("column_head", <<w>>) # {}}

Targets == ElementsOfKind("column") \cup ElementsOfKind("beam") \cup ElementsOfKind("plate")

\* the vertices of the edge or face an element was made for
EndVertices(t) ==
    IF gm_elements[t].kind = "plate"
    THEN Range(cell_network.face[gm_elements[t].of[1]])
    ELSE {gm_elements[t].of[1], gm_elements[t].of[2]}

\* a vertex that carries a head, and an element that ends at it
Adjacencies ==
    {a \in HeadVertices \X Targets : a[1] \in EndVertices(a[2])}

\* the cutters made for the head at w and the target t
CuttersAt(w, t) ==
    {c \in ElementsOfKind("cutter") :
        /\ gm_elements[c].of[2] = t
        /\ gm_elements[gm_elements[c].of[1]].of = <<w>>}

EdgesBetween(a, b, interaction) ==
    {i \in 1..Len(gm_interactions) :
        gm_interactions[i] = [a |-> a, b |-> b, interaction |-> interaction]}

ElementsBefore(j) == Cardinality({k \in 1..(j - 1) : gm_ops[k] = "add_element"})

InteractionsBefore(j) == Cardinality({k \in 1..(j - 1) : gm_ops[k] = "add_interaction"})

\* C19 as claimed: in the sequence of model operations no add_element
\* follows an add_interaction.
C19_NoElementAfterInteraction ==
    \A i, j \in 1..Len(gm_ops) :
        i < j /\ gm_ops[i] = "add_interaction" => gm_ops[j] # "add_element"

\* C19 as amended: after the first add_interaction only cutter elements are
\* added, each immediately before the interaction that leaves it, and every
\* interaction joins two elements that are in the model already.
C19_OnlyCuttersAfterInteraction ==
    \A j \in 1..Len(gm_ops) :
        /\ gm_ops[j] = "add_element" /\ InteractionsBefore(j) > 0 =>
              /\ gm_elements[ElementsBefore(j) + 1].kind = "cutter"
              /\ j < Len(gm_ops)
              /\ gm_ops[j + 1] = "add_interaction"
              /\ gm_interactions[InteractionsBefore(j) + 1].a = ElementsBefore(j) + 1
        /\ gm_ops[j] = "add_interaction" =>
              /\ gm_interactions[InteractionsBefore(j) + 1].a <= ElementsBefore(j)
              /\ gm_interactions[InteractionsBefore(j) + 1].b <= ElementsBefore(j)

\* a finished build with a floor in which a cutter element was added after
\* an interaction
C19_Witness ==
    /\ GridDone
    /\ Len(Floors) > 0
    /\ \E i, j \in 1..Len(gm_ops) :
          i < j /\ gm_ops[i] = "add_interaction" /\ gm_ops[j] = "add_element"


\* no directed cycle among the nodes: peel off the nodes nothing points at
RECURSIVE Acyclic(_, _)
Acyclic(nodes, edges) ==
    LET roots == {n \in nodes :
                    ~\E i \in 1..Len(edges) : edges[i].b = n /\ edges[i].a \in nodes}
    IN IF nodes = {} THEN TRUE
       ELSE IF roots = {} THEN FALSE
       ELSE Acyclic(nodes \ roots, edges)

\* C20: the directed interaction graph the builder produces has no directed
\* cycle of modifier -> modified edges, at any point of the build.
C20_InteractionGraphAcyclic ==
    Acyclic(1..Len(gm_elements), gm_interactions)

\* a finished build whose graph has a column cut from both ends and a plate
C20_Witness ==
    /\ GridDone
    /\ Len(gm_interactions) >= 6
    /\ \E t \in ElementsOfKind("column") :
          Cardinality({i \in 1..Len(gm_interactions) : gm_interactions[i].b = t}) = 4
    /\ \E i \in 1..Len(gm_interactions) :
          gm_elements[gm_interactions[i].b].kind = "plate"


(***************************************************************************)
(* Floor faces of the topology                                             *)
(***************************************************************************)
\* the number of vertices of the mesh that match a topology vertex
MatchedCount(mesh) ==
    Cardinality({i \in 1..Len(mesh.vertices) :
                    VerticesWithKey(geometric_key(mesh.vertices[i])) # {}})

\* the meshes among the first k that add a face
FacesAddedUpTo(k) ==
    {j \in 1..k : MatchedCount(floor_surfaces[j]) >= 3}

C23_EdgesCarryCutStrategy ==
    \A i \in 1..Len(gm_interactions) :
        gm_interactions[i].interaction \in
            {"InteractionInterfaceCutter", "InteractionInterfaceBooleanDifference"}


\* C26: when the computation of x's geometry has returned, every interface
\* interaction on an edge u -> x of the graph was applied with u's geometry,
\* whatever other edges exist.
C26_IncomingInterfaceApplied ==
    cut_pc = "returned" =>
        \A i \in 1..Len(interactions_added) :
            /\ interactions_added[i].b = cut_self
            /\ interactions_added[i].interaction # "Interaction"
            => \E k \in 1..Len(cut_calls) :
                  /\ cut_calls[k].edge = <<interactions_added[i].a, cut_self>>
                  /\ cut_calls[k].interaction = interactions_added[i].interaction
                  /\ cut_calls[k].before.of = cut_self


\* C27: every rule vector that _generate_rules returns satisfies the
\* rule-vector invariant, so the fix-up of _generate_mesh has no bit to change.
C27_DerivedRulesNeedNoFixUp ==
    RulesDerived /\ sh_raised = "none" =>
        /\ RuleVectorInvariant(sh_rules)
        /\ Forced(sh_rules) = sh_rules
        /\ FixUp(sh_rules).raised = "none"

\* a derived vector with a diagonal bit set by a floor face
C27_Witness ==
    /\ RulesDerived
    /\ sh_raised = "none"
    /\ sh_f # <<>>
    /\ DiagonalBits(sh_rules) # {}


\* the head's mesh has a face tagged with the direction: the lookup
\* faces_where({"direction": d})[0] finds one
HasTaggedFace(head, d) ==
    /\ d.raised = "none"
    /\ gm_elements[column_head_to_vertex[head]].rules[d.value]

\* C28: once the heads are built, every beam end that carries a head finds a
\* face of the head tagged with the beam's cardinal direction, every floor face
\* at a head vertex finds a face tagged with the combined diagonal, and the
\* build never ends in a failed lookup.
C28_TaggedFaceLookupNeverFails ==
    /\ gm_raised # "IndexError"
    /\ gm_raised # "none" => gm_interactions = <<>>
    /\ gm_pc \notin {"idle", "heads", "raised"} =>
          /\ \A i \in 1..Len(Beams) : \A k \in 1..2 :
                Beams[i][k] \in DOMAIN column_head_to_vertex =>
                   HasTaggedFace(Beams[i][k],
                       closest_direction(VectorBetween(cell_network, Beams[i][k],
                                                       Beams[i][3 - k])))
          /\ \A i \in 1..Len(Floors) :
                \A w \in Range(cell_network.face[Floors[i]]) :
                   w \in DOMAIN column_head_to_vertex =>
                      HasTaggedFace(w, DirectionAngled(cell_network,
                                           cell_network.face[Floors[i]], w))

\* a finished build in which a beam and a floor were both cut at a head
C28_Witness ==
    /\ GridDone
    /\ gm_raised = "none"
    /\ \E i \in 1..Len(Beams) : Beams[i][1] \in DOMAIN column_head_to_vertex
    /\ \E i \in 1..Len(Floors) :
          \E w \in Range(cell_network.face[Floors[i]]) :
             /\ w \in DOMAIN column_head_to_vertex
             /\ \E t \in ElementsFor("plate", <<Floors[i]>>) : CuttersAt(w, t) # {}


(***************************************************************************)
(* Specification of closest_direction                                      *)
(***************************************************************************)
MaxCoord == 2       \* vector components range over -MaxCoord..MaxCoord

base_vars == <<topo_vars, shape_vars, dc_vars, cut_vars, ch_vars, grid_vars>>

BaseIdle == TopoIdle /\ ShapeIdle /\ CombineIdle /\ CutIdle /\ HeadsIdle /\ GridIdle

InitDirection ==
    /\ BaseIdle
    /\ IndexIdle /\ DirtyIdle /\ DimsIdle /\ SliceIdle
    /\ cd_pc = "idle"
    /\ cd_vector \in (-MaxCoord..MaxCoord) \X (-MaxCoord..MaxCoord) \X (-MaxCoord..MaxCoord)
    /\ cd_result = NoOutcome

\* shape_column_head.py:177: vector.unitize() raises on a vector of length zero
Unitize ==
    /\ cd_pc = "idle"
    /\ IF closest_direction(cd_vector).raised # "none"
       THEN cd_pc' = "raised" /\ cd_result' = closest_direction(cd_vector)
       ELSE cd_pc' = "unitized" /\ UNCHANGED cd_result
    /\ UNCHANGED <<cd_vector, base_vars, ix_vars, dirty_vars, dim_vars, slice_vars>>

\* shape_column_head.py:179-187: the dot products and their first maximum
TakeMaximum ==
    /\ cd_pc = "unitized"
    /\ cd_result' = closest_direction(cd_vector)
    /\ cd_pc' = "returned"
    /\ UNCHANGED <<cd_vector, base_vars, ix_vars, dirty_vars, dim_vars, slice_vars>>

NextDirection == Unitize \/ TakeMaximum

SpecDirection == InitDirection /\ [][NextDirection]_vars

\* the cardinals whose unit vector has the largest dot product with the vector
ClosestCardinals(vector) == {d \in Cardinals : IsClosestCardinal(d, vector)}

\* the vector lies exactly on a diagonal of the plan
OnDiagonal(vector) == Abs(vector[1]) = Abs(vector[2]) /\ vector[1] # 0

\* C24 as stated: every call returns a cardinal with the largest dot product,
\* and off the diagonals that cardinal is the only one with the largest dot
\* product.
C24_SingleClosestCardinal ==
    cd_pc \in {"returned", "raised"} =>
        /\ cd_result.raised = "none"
        /\ cd_result.value \in ClosestCardinals(cd_vector)
        /\ ~OnDiagonal(cd_vector) => Cardinality(ClosestCardinals(cd_vector)) = 1

\* C24 amended: a zero vector raises ZeroDivisionError; any other vector gives
\* the first of N, E, S, W among the cardinals with the largest dot product;
\* that cardinal is the only one unless the vector is on a diagonal (two tie)
\* or has no horizontal component (all four tie and NORTH is returned).
C24_FirstClosestCardinal ==
    /\ cd_pc = "raised" =>
          cd_vector = <<0, 0, 0>> /\ cd_result.raised = "ZeroDivisionError"
    /\ cd_pc = "returned" =>
          /\ cd_vector # <<0, 0, 0>>
          /\ cd_result.raised = "none"
          /\ cd_result.value \in ClosestCardinals(cd_vector)
          /\ \A k \in 1..4 :
                CardinalVectors[k][1] = cd_result.value =>
                   \A j \in 1..(k - 1) :
                      CardinalVectors[j][1] \notin ClosestCardinals(cd_vector)
          /\ Cardinality(ClosestCardinals(cd_vector)) =
                IF cd_vector[1] = 0 /\ cd_vector[2] = 0 THEN 4
                ELSE IF OnDiagonal(cd_vector) THEN 2 ELSE 1
          /\ cd_vector[1] = 0 /\ cd_vector[2] = 0 => cd_result.value = NORTH

\* a vertical vector was classified: all four cardinals tie
C24_Witness ==
    /\ cd_pc = "returned"
    /\ cd_vector[1] = 0 /\ cd_vector[2] = 0
    /\ cd_result.value = NORTH


(***************************************************************************)
(* Specification of slice_and_select_largest                               *)
(***************************************************************************)
MaxVolume == 3      \* bounding-box volumes range over 0..MaxVolume

\* mesh_slice_plane(mesh, plane): None (no section), the positive and the
\* negative part with any bounding boxes, or an error of the kernel
MeshSlicePlaneOutcomes ==
    {[raised |-> "none", value |-> <<>>], [raised |-> "Exception", value |-> <<>>]}
    \cup {[raised |-> "none",
           value |-> <<[id |-> 2, volume |-> a], [id |-> 3, volume |-> b]>>] :
             a \in 0..MaxVolume, b \in 0..MaxVolume}

\* mutant: the first fragment, whatever the volumes
select_largest_First(mesh, mesh_pair) ==
    IF mesh_pair = <<>> THEN mesh ELSE mesh_pair[1]

\* triangular_slab.py:69-73
select_largest(mesh, mesh_pair) ==
    IF mesh_pair = <<>> THEN mesh
    ELSE IF mesh_pair[1].volume < mesh_pair[2].volume
         THEN mesh_pair[2] ELSE mesh_pair[1]

InitSlice ==
    /\ BaseIdle
    /\ DirIdle /\ IndexIdle /\ DirtyIdle /\ DimsIdle
    /\ sl_pc = "idle"
    /\ sl_mesh \in {[id |-> 1, volume |-> w] : w \in 0..MaxVolume}
    /\ sl_pair = [raised |-> "pending", value |-> <<>>]
    /\ sl_result = NoFragment

\* triangular_slab.py:68
MeshSlicePlane ==
    /\ sl_pc = "idle"
    /\ \E out \in MeshSlicePlaneOutcomes :
          /\ sl_pair' = out
          /\ sl_pc' = IF out.raised = "none" THEN "sliced" ELSE "raised"
    /\ UNCHANGED <<sl_mesh, sl_result, base_vars, dir_vars, ix_vars, dirty_vars, dim_vars>>

\* triangular_slab.py:69-73
SelectLargest ==
    /\ sl_pc = "sliced"
    /\ sl_result' = select_largest(sl_mesh, sl_pair.value)
    /\ sl_pc' = "returned"
    /\ UNCHANGED <<sl_mesh, sl_pair, base_vars, dir_vars, ix_vars, dirty_vars, dim_vars>>

NextSlice == MeshSlicePlane \/ SelectLargest

SpecSlice == InitSlice /\ [][NextSlice]_vars

\* C30: of two fragments the one with the larger bounding-box volume is
\* returned, the first one when the volumes are equal, and the input mesh
\* itself when the slice gives nothing.
C30_LargestFragmentOrInput ==
    sl_pc = "returned" =>
        IF sl_pair.value = <<>> THEN sl_result = sl_mesh
        ELSE /\ sl_result \in {sl_pair.value[1], sl_pair.value[2]}
             /\ sl_result.volume >= sl_pair.value[1].volume
             /\ sl_result.volume >= sl_pair.value[2].volume
             /\ sl_pair.value[1].volume = sl_pair.value[2].volume =>
                   sl_result = sl_pair.value[1]

\* the second fragment was the larger one and was returned
C30_Witness ==
    /\ sl_pc = "returned"
    /\ sl_pair.value # <<>>
    /\ sl_pair.value[1].volume < sl_pair.value[2].volume
    /\ sl_result = sl_pair.value[2]


(***************************************************************************)
(* Specification of the dimensions of the ColumnHeadCrossShape singleton   *)
(***************************************************************************)
MaxConstructions == 3   \* at most this many ColumnHeadCrossShape(...) calls

\* <<width, depth, height, offset>> as passed to the constructor
DimensionSet == {<<150, 150, 300, 210>>, <<200, 200, 300, 210>>}

\* shape_column_head.py:125-128, 140-144: the one instance, whose dimension
\* fields are assigned unless the attribute _initialized exists
InstanceFor(instance, dims) ==
    IF instance.initialized THEN instance
    ELSE [exists |-> TRUE, initialized |-> FALSE, dims |-> dims]

\* shape_column_head.py:266-267, 274-292: a new mesh is made from the
\* dimension fields of the instance, a cached one is returned as it is
MeshesAfter(meshes, rules, dims) ==
    IF rules \in DOMAIN meshes THEN meshes ELSE Put(meshes, rules, dims)

InitDims ==
    /\ BaseIdle
    /\ DirIdle /\ IndexIdle /\ DirtyIdle /\ SliceIdle
    /\ DimsIdle

\* shape_column_head.py:130-148
Construction(in, dims) ==
    /\ Len(dm_calls) < MaxConstructions
    /\ LET instance == InstanceFor(dm_instance, dims)
           r == generate_rules(JunctionPoints, in.e, in.f)
           raised == IF r.raised # "none" THEN r.raised
                     ELSE IF r.rules \in DOMAIN dm_meshes THEN "none"
                     ELSE FixUp(r.rules).raised
       IN /\ dm_calls' = Append(dm_calls, [dims |-> dims, raised |-> raised])
          /\ IF raised # "none"
             THEN dm_instance' = instance /\ UNCHANGED dm_meshes
             ELSE /\ dm_meshes' = MeshesAfter(dm_meshes, r.rules, instance.dims)
                  /\ dm_instance' = [instance EXCEPT !.initialized = TRUE]
    /\ UNCHANGED <<base_vars, dir_vars, ix_vars, dirty_vars, slice_vars>>

NextDims == \E in \in HeadInputs : \E dims \in DimensionSet : Construction(in, dims)

SpecDims == InitDims /\ [][NextDims]_vars

\* C29: every cached mesh was generated with the dimensions that the first
\* construction passed.
C29_DimensionsOfFirstConstruction ==
    \A rules \in DOMAIN dm_meshes : dm_meshes[rules] = dm_calls[1].dims


(***************************************************************************)
(* Specification of the is_dirty setter                                    *)
(***************************************************************************)
MaxElements == 3        \* the model holds the elements 1..MaxElements
RecursionLimit == 4     \* at most this many nested calls of the setter

\* model.graph.neighbors(node): the nodes joined to it by an edge of either
\* direction, as a list
graph_neighbors(edges, node) ==
    Flatten([k \in 1..MaxElements |->
        IF <<node, k>> \in edges \/ <<k, node>> \in edges THEN <<k>> ELSE <<>>])

InitDirty ==
    /\ BaseIdle
    /\ DirIdle /\ IndexIdle /\ DimsIdle /\ SliceIdle
    /\ dy_pc = "idle"
    /\ dy_edges \in SUBSET {<<a, b>> : a \in 1..MaxElements, b \in 2..MaxElements}
    /\ \A edge \in dy_edges : edge[1] < edge[2]
    /\ dy_dirty \in [1..MaxElements -> BOOLEAN]
    /\ dy_stack = <<>>
    /\ dy_call = <<>>

\* element.py:101-105: element.is_dirty = value, up to the start of the loop
SetDirty(element, value) ==
    /\ dy_pc = "idle"
    /\ dy_call' = <<element, value>>
    /\ dy_dirty' = [dy_dirty EXCEPT ![element] = value]
    /\ IF value
       THEN /\ dy_stack' = <<[self |-> element,
                              todo |-> graph_neighbors(dy_edges, element)]>>
            /\ dy_pc' = "running"
       ELSE dy_stack' = <<>> /\ dy_pc' = "returned"
    /\ UNCHANGED <<dy_edges, base_vars, dir_vars, ix_vars, dim_vars, slice_vars>>

\* element.py:107-108: elements[neighbor].is_dirty = value enters the setter
\* of the neighbour (102-106)
SetNeighborDirty ==
    /\ dy_pc = "running"
    /\ Last(dy_stack).todo # <<>>
    /\ Len(dy_stack) < RecursionLimit
    /\ LET neighbor == Head(Last(dy_stack).todo)
       IN /\ dy_dirty' = [dy_dirty EXCEPT ![neighbor] = TRUE]
          /\ dy_stack' = Append(
                [dy_stack EXCEPT ![Len(dy_stack)].todo = Tail(@)],
                [self |-> neighbor, todo |-> graph_neighbors(dy_edges, neighbor)])
    /\ UNCHANGED <<dy_pc, dy_edges, dy_call, base_vars, dir_vars, ix_vars, dim_vars,
                   slice_vars>>

\* the interpreter refuses one more nested call: RecursionError leaves every
\* frame, no frame catches it
RaiseRecursionError ==
    /\ dy_pc = "running"
    /\ Last(dy_stack).todo # <<>>
    /\ Len(dy_stack) = RecursionLimit
    /\ dy_pc' = "raised"
    /\ dy_stack' = <<>>
    /\ UNCHANGED <<dy_edges, dy_dirty, dy_call, base_vars, dir_vars, ix_vars, dim_vars,
                   slice_vars>>

\* element.py:107: the loop of the innermost setter is over, the setter returns
ReturnFromSetter ==
    /\ dy_pc = "running"
    /\ Last(dy_stack).todo = <<>>
    /\ dy_stack' = Front(dy_stack)
    /\ dy_pc' = IF Len(dy_stack) = 1 THEN "returned" ELSE "running"
    /\ UNCHANGED <<dy_edges, dy_dirty, dy_call, base_vars, dir_vars, ix_vars, dim_vars,
                   slice_vars>>

NextDirty ==
    \/ \E element \in 1..MaxElements : \E value \in BOOLEAN : SetDirty(element, value)
    \/ SetNeighborDirty
    \/ RaiseRecursionError
    \/ ReturnFromSetter

SpecDirty == InitDirty /\ [][NextDirty]_vars

\* C25: is_dirty = True on an element with a graph neighbour returns, and then
\* the element and all its neighbours are dirty.
C25_DirtyReachesNeighbours ==
    dy_call # <<>> /\ dy_call[2] /\ graph_neighbors(dy_edges, dy_call[1]) # <<>> =>
        /\ dy_pc # "raised"
        /\ dy_pc = "returned" =>
              /\ dy_dirty[dy_call[1]]
              /\ \A n \in Range(graph_neighbors(dy_edges, dy_call[1])) : dy_dirty[n]


(***************************************************************************)
(* Specification of the grid indices u, v, w                               *)
(* (docs/examples/crea_json_to_cell_network.py)                            *)
(***************************************************************************)
MaxNodes == 4       \* at most this many nodes in the graph

\* coordinates are counted in units of 1 / RoundUnits of the third decimal
RoundUnits == 4

\* round(value, 3): the nearest multiple of the third decimal, a tie going to
\* the even one
Round3(c) ==
    LET q == c \div RoundUnits
        r == c % RoundUnits
    IN IF 2 * r < RoundUnits THEN q
       ELSE IF 2 * r > RoundUnits THEN q + 1
       ELSE IF q % 2 = 0 THEN q ELSE q + 1

\* sorted(coord_dict.items()): the keys in ascending order
RECURSIVE SortedKeys(_)
SortedKeys(S) ==
    IF S = {} THEN <<>>
    ELSE LET m == CHOOSE x \in S : \A y \in S : x <= y
         IN <<m>> \o SortedKeys(S \ {m})

\* mutant: the level of the first end of the edge
EdgeLevel_First(level, edge) == level[edge[1]]

\* crea_json_to_cell_network.py:168-172
EdgeLevel(level, edge) ==
    IF level[edge[1]] < level[edge[2]] THEN level[edge[1]] ELSE level[edge[2]]

\* crea_json_to_cell_network.py:175-178: min(face_values)
FaceLevel(level, face) ==
    CHOOSE l \in {level[face[j]] : j \in 1..Len(face)} :
        \A j \in 1..Len(face) : l <= level[face[j]]

\* crea_json_to_cell_network.py:137-180; the entry of attributes stands for
\* "max_" + attr_name
partition_and_assign_attributes(cn, nodes, edges, faces, axis, attr_name) ==
    LET sorted_coord_dict == SortedKeys({Round3(nodes[n][axis]) : n \in 1..Len(nodes)})
        level == [n \in 1..Len(nodes) |->
                     IndexOf(sorted_coord_dict, Round3(nodes[n][axis])) - 1]
    IN [vertex |-> Put(cn.vertex, attr_name, level),
        edge |-> Put(cn.edge, attr_name,
                     [i \in 1..Len(edges) |-> EdgeLevel(level, edges[i])]),
        face |-> Put(cn.face, attr_name,
                     [k \in 1..Len(faces) |-> FaceLevel(level, faces[k])]),
        attributes |-> Put(cn.attributes, attr_name, Len(sorted_coord_dict))]

\* the three calls of lines 183-185: coordinate, its position, attribute
Axes == << <<"x", 1, "u">>, <<"y", 2, "v">>, <<"z", 3, "w">> >>

\* node coordinates to choose from; several differ and round to one value
IndexPointSet ==
    {<<0, 0, 0>>, <<1, 4, 0>>, <<4, 0, 12>>, <<3, 4, 12>>, <<-2, 9, 6>>}

InitIndex ==
    /\ BaseIdle
    /\ DirIdle /\ DirtyIdle /\ DimsIdle /\ SliceIdle
    /\ ix_pc = 1
    /\ ix_nodes \in SeqsUpTo(IndexPointSet, MaxNodes)
    /\ \A n, m \in 1..Len(ix_nodes) : n # m => ix_nodes[n] # ix_nodes[m]
    /\ ix_edges = [i \in 1..(Len(ix_nodes) - 1) |-> <<i, i + 1>>]
    /\ ix_faces = [k \in 1..(Len(ix_nodes) - 2) |-> <<k + 2, k, k + 1>>]
    /\ ix_cell_network = NoIndices

\* crea_json_to_cell_network.py:183-185: one call of the function
Partition(coord, attr_name) ==
    /\ ix_pc \in 1..Len(Axes)
    /\ Axes[ix_pc][1] = coord
    /\ Axes[ix_pc][3] = attr_name
    /\ ix_cell_network' =
          partition_and_assign_attributes(ix_cell_network, ix_nodes, ix_edges,
                                          ix_faces, Axes[ix_pc][2], attr_name)
    /\ ix_pc' = ix_pc + 1
    /\ UNCHANGED <<ix_nodes, ix_edges, ix_faces, base_vars, dir_vars, dirty_vars,
                   dim_vars, slice_vars>>

NextIndex ==
    \/ Partition("x", "u")
    \/ Partition("y", "v")
    \/ Partition("z", "w")

SpecIndex == InitIndex /\ [][NextIndex]_vars

\* the rounded coordinate of a node along the axis of a call
Rounded(a, n) == Round3(ix_nodes[n][Axes[a][2]])

\* C22: after each call the vertex indices of its axis are 0..k-1 in the
\* order of the rounded coordinates (smaller coordinate, smaller index; equal
\* coordinate, equal index), and every edge and face has the smallest index of
\* its vertices.
C22_GridIndices ==
    \A a \in 1..Len(Axes) :
        Axes[a][3] \in DOMAIN ix_cell_network.vertex =>
            LET level == ix_cell_network.vertex[Axes[a][3]]
                nodes == 1..Len(ix_nodes)
            IN /\ DOMAIN level = nodes
               /\ \A n, m \in nodes :
                     /\ Rounded(a, n) < Rounded(a, m) => level[n] < level[m]
                     /\ Rounded(a, n) = Rounded(a, m) => level[n] = level[m]
               /\ {level[n] : n \in nodes} =
                     0..(Cardinality({Rounded(a, n) : n \in nodes}) - 1)
               /\ \A i \in 1..Len(ix_edges) :
                     LET l == ix_cell_network.edge[Axes[a][3]][i]
                     IN /\ l \in {level[ix_edges[i][1]], level[ix_edges[i][2]]}
                        /\ l <= level[ix_edges[i][1]]
                        /\ l <= level[ix_edges[i][2]]
               /\ \A k \in 1..Len(ix_faces) :
                     LET l == ix_cell_network.face[Axes[a][3]][k]
                     IN /\ l \in {level[w] : w \in Range(ix_faces[k])}
                        /\ \A w \in Range(ix_faces[k]) : l <= level[w]

\* all three axes indexed; two nodes with different x share a level, an edge
\* runs down in u and a face has its lowest vertex last
C22_Witness ==
    /\ ix_pc = Len(Axes) + 1
    /\ \E n, m \in 1..Len(ix_nodes) :
          /\ ix_nodes[n][1] # ix_nodes[m][1]
          /\ ix_cell_network.vertex["u"][n] = ix_cell_network.vertex["u"][m]
    /\ \E i \in 1..Len(ix_edges) :
          ix_cell_network.vertex["u"][ix_edges[i][1]] >
             ix_cell_network.vertex["u"][ix_edges[i][2]]
    /\ \E k \in 1..Len(ix_faces) :
          ix_cell_network.face["w"][k] < ix_cell_network.vertex["w"][ix_faces[k][1]]

====
